---- MODULE Spec2Model ----
(***************************************************************************)
(* Smart Mortgage Accelerator: the amortization engine.                    *)
(*                                                                         *)
(* One call of an exported calculator function is one behaviour: Init      *)
(* picks the function and its arguments, a Call action runs the code up to *)
(* the schedule loop, a Loop action is one iteration of the while loop and *)
(* a Return action is the code after the loop.                             *)
(*                                                                         *)
(* Numbers.  The program computes in IEEE-754 doubles: every arithmetic    *)
(* operation is rounded to the nearest representable value.  The model     *)
(* keeps that: money is an integer number of 1/Scale currency units,       *)
(* (1+r)^n is an integer number of 1/RateScale, and every product and      *)
(* quotient is rounded to the nearest integer (RoundDiv, MulDiv).  Sums    *)
(* and differences of money are exact.  A monthly rate is kept as the      *)
(* number of 1/RateDen, RateDen = 12 * 100, so annualRate / 12 / 100 is    *)
(* annualRate over RateDen.                                                *)
(***************************************************************************)
EXTENDS Integers, Sequences, FiniteSets, TLC

\* ------------------------------------------------------------------ bounds
Scale == 100
RateScale == 100000000
MaxTenure == 7
MaxIter == 16

\* annualRate / 12 / 100 (part_005:106, part_005:153; test.ts:212)
RateDen == 12 * 100

\* ---------------------------------------------------------- rounded arithmetic
\* a / b rounded to the nearest integer, b > 0
RoundDiv(a, b) == (2 * a + b) \div (2 * b)

\* <<q, r>> with x * y = q * z + r and 0 <= r < z, for 0 <= x < z, y >= 0;
\* no intermediate value exceeds 3 * z
RECURSIVE MulDivMod(_, _, _)
MulDivStep(h, x, y, z) ==
    LET t == 2 * h[2] + (IF y % 2 = 1 THEN x ELSE 0)
    IN  <<2 * h[1] + (t \div z), t % z>>

MulDivMod(x, y, z) ==
    IF y = 0 THEN <<0, 0>> ELSE MulDivStep(MulDivMod(x, y \div 2, z), x, y, z)

\* x * y / z rounded to the nearest integer, for x, y >= 0 and z > 0
MulDiv(x, y, z) ==
    LET m == MulDivMod(x % z, y, z)
    IN  (x \div z) * y + m[1] + (IF 2 * m[2] >= z THEN 1 ELSE 0)

\* Math.pow(1 + monthlyRate, months) in units of 1/RateScale
RECURSIVE Pow(_, _)
Pow(monthlyRate, months) ==
    IF months = 0 THEN RateScale
    ELSE MulDiv(Pow(monthlyRate, months - 1), RateDen + monthlyRate, RateDen)

\* balance * monthlyRate
Interest(balance, monthlyRate) == MulDiv(balance, monthlyRate, RateDen)

Max(a, b) == IF a >= b THEN a ELSE b
Min(a, b) == IF a <= b THEN a ELSE b

RECURSIVE SumOf(_, _)
\* schedule.reduce((sum, record) => sum + record[field], 0)
SumOf(s, field) ==
    IF s = <<>> THEN 0 ELSE SumOf(SubSeq(s, 1, Len(s) - 1), field) + s[Len(s)][field]

\* the value of a JavaScript quotient: a number, or NaN (0 / 0), or an infinity
\* with its sign (x / 0)
Number(v) == [isFinite |-> TRUE, isNaN |-> FALSE, value |-> v]
NaN == [isFinite |-> FALSE, isNaN |-> TRUE, value |-> 0]
Infinity(sign) == [isFinite |-> FALSE, isNaN |-> FALSE, value |-> sign]

\* (a / b) * 100 in whole percent; the divisor of a JavaScript quotient may be 0
Percentage(a, b) ==
    IF b = 0
    THEN (IF a = 0 THEN NaN ELSE IF a > 0 THEN Infinity(1) ELSE Infinity(0 - 1))
    ELSE LET magnitude == MulDiv(IF a < 0 THEN 0 - a ELSE a, 100,
                                 IF b < 0 THEN 0 - b ELSE b)
         IN  Number(IF (a < 0) = (b < 0) THEN magnitude ELSE 0 - magnitude)

\* ------------------------------------------------------------ EMI calculator
\* calculateMonthlyEMI returning the principal undivided at rate 0
calculateMonthlyEMIUndivided(principal, annualRate, tenureMonths) ==
    LET monthlyRate == annualRate
    IN  IF monthlyRate = 0
        THEN principal
        ELSE LET numerator == MulDiv(Pow(monthlyRate, tenureMonths), monthlyRate, RateDen)
                 denominator == Pow(monthlyRate, tenureMonths) - RateScale
             IN  MulDiv(numerator, principal, denominator)

calculateMonthlyEMI(principal, annualRate, tenureMonths) ==
    LET monthlyRate == annualRate
    IN  IF monthlyRate = 0
        THEN RoundDiv(principal, tenureMonths)
        ELSE LET numerator == MulDiv(Pow(monthlyRate, tenureMonths), monthlyRate, RateDen)
                 denominator == Pow(monthlyRate, tenureMonths) - RateScale
             IN  MulDiv(numerator, principal, denominator)

calculateTotalInterestAndAmount(principal, monthlyEMI, tenureMonths) ==
    LET totalAmount == monthlyEMI * tenureMonths
    IN  [totalInterest |-> totalAmount - principal, totalAmount |-> totalAmount]

\* the advanced engine's own EMI (test.ts:218-224): (P * r * pow) / (pow - 1)
getMonthlyRate(annualRate) == annualRate

calculateEMI(principal, monthlyRate, months) ==
    IF monthlyRate = 0
    THEN RoundDiv(principal, months)
    ELSE RoundDiv(MulDiv(principal * monthlyRate, Pow(monthlyRate, months),
                         Pow(monthlyRate, months) - RateScale),
                  RateDen)

\* ----------------------------------------------------------- calendar helper
\* A Date is [y, m, d] with m = getMonth() in 0 .. 11; dates are local midnights.
MkDate(y, m, d) == [y |-> y, m |-> m, d |-> d]

IsLeapYear(y) == (y % 4 = 0 /\ y % 100 # 0) \/ y % 400 = 0

\* new Date(y, m + 1, 0).getDate()
DaysInMonth(y, m) ==
    IF m = 1 THEN (IF IsLeapYear(y) THEN 29 ELSE 28)
    ELSE IF m \in {3, 5, 8, 10} THEN 30 ELSE 31

\* the Date's time value, to the day: what <= and >= compare
DateValue(date) == (date.y * 12 + date.m) * 31 + date.d

\* Date.prototype.setMonth(m) for m >= 0: the year takes the overflow of the
\* month, and a day the month does not have runs over into the next month
setMonth(date, m) ==
    LET y1 == date.y + (m \div 12)
        m1 == m % 12
        last == DaysInMonth(y1, m1)
    IN  IF date.d <= last THEN MkDate(y1, m1, date.d)
        ELSE MkDate(y1 + ((m1 + 1) \div 12), (m1 + 1) % 12, date.d - last)

isSameMonth(date1, date2) == date1.y = date2.y /\ date1.m = date2.m

addMonths(date, months) == setMonth(date, date.m + months)

getPaymentDate(startDate, monthOffset, paymentDay) ==
    LET date == addMonths(startDate, monthOffset)
        lastDay == DaysInMonth(date.y, date.m)
        day == Min(paymentDay, lastDay)
    IN  MkDate(date.y, date.m, day)

\* an optional field: <<>> is undefined, <<v>> is the value v
Undefined == <<>>
Some(v) == <<v>>
IsDefined(o) == o # <<>>
\* the truth value of an optional number (undefined and 0 are false)
TruthyNumber(o) == o # <<>> /\ o[1] # 0

\* ------------------------------------------------------------------- inputs
Principals == {1000 * Scale, 1200 * Scale, 2500 * Scale}
Rates == {0, 5, 12}
\* every short term, and a term of one year
Tenures == (1 .. MaxTenure) \cup {12}
Overpayments == {0 - 200 * Scale, 0 - 50 * Scale, 0, 1, 100 * Scale}
LumpSums == {0, 100 * Scale, 1000 * Scale, 1200 * Scale, 3000 * Scale}

StandardFns ==
    {"generateAmortizationSchedule", "calculateOverpaymentImpact",
     "calculatePartPaymentImpact"}

GenerateInputs ==
    [principal : Principals, annualRate : Rates, tenureMonths : Tenures,
     monthlyOverpayment : Overpayments]

OriginalLoanAmounts == {1200 * Scale, 20000 * Scale}

PartPaymentInputs ==
    [currentBalance : Principals, remainingTenureMonths : Tenures, annualRate : Rates,
     lumpSumAmount : LumpSums, originalLoanAmount : OriginalLoanAmounts]

LoanStartDates == {MkDate(2024, 0, 31), MkDate(2023, 0, 31), MkDate(2024, 0, 15)}
PaymentDays == {1, 15, 31}

\* the fixed-rate block: absent, a low fixed rate, a variable rate no EMI covers,
\* and a disabled block whose fields are set
FixedRateBlocks ==
    { [hasFixedRatePeriod |-> FALSE, fixedRate |-> Undefined, variableRate |-> Undefined,
       fixedRateEndDate |-> Undefined],
      [hasFixedRatePeriod |-> TRUE, fixedRate |-> Some(2), variableRate |-> Some(12),
       fixedRateEndDate |-> Some(MkDate(2024, 2, 15))],
      [hasFixedRatePeriod |-> TRUE, fixedRate |-> Some(5), variableRate |-> Some(240),
       fixedRateEndDate |-> Some(MkDate(2024, 1, 20))],
      [hasFixedRatePeriod |-> FALSE, fixedRate |-> Some(2), variableRate |-> Some(240),
       fixedRateEndDate |-> Some(MkDate(2024, 2, 15))] }

LumpSumBlocks ==
    { [hasLumpSum |-> FALSE, lumpSumAmount |-> Undefined, lumpSumDate |-> Undefined],
      [hasLumpSum |-> TRUE, lumpSumAmount |-> Some(100 * Scale),
       lumpSumDate |-> Some(MkDate(2024, 1, 15))],
      [hasLumpSum |-> TRUE, lumpSumAmount |-> Some(100 * Scale),
       lumpSumDate |-> Some(MkDate(2024, 2, 10))],
      [hasLumpSum |-> FALSE, lumpSumAmount |-> Some(100 * Scale),
       lumpSumDate |-> Some(MkDate(2024, 2, 10))] }

\* the extra-payment block: absent, a window of three months, disabled with its
\* fields set, and enabled with an amount of 0
ExtraPaymentBlocks ==
    { [hasExtraPayments |-> FALSE, extraPaymentAmount |-> Undefined,
       extraPaymentStartDate |-> Undefined, extraPaymentEndDate |-> Undefined],
      [hasExtraPayments |-> TRUE, extraPaymentAmount |-> Some(50 * Scale),
       extraPaymentStartDate |-> Some(MkDate(2024, 1, 15)),
       extraPaymentEndDate |-> Some(MkDate(2024, 3, 15))],
      [hasExtraPayments |-> FALSE, extraPaymentAmount |-> Some(50 * Scale),
       extraPaymentStartDate |-> Some(MkDate(2024, 1, 15)),
       extraPaymentEndDate |-> Some(MkDate(2024, 3, 15))],
      [hasExtraPayments |-> TRUE, extraPaymentAmount |-> Some(0),
       extraPaymentStartDate |-> Some(MkDate(2024, 1, 15)),
       extraPaymentEndDate |-> Some(MkDate(2024, 3, 15))] }

\* an AdvancedMortgageInput from its loan terms and its three blocks
AdvancedInput(p, r, n, day, start, f, l, e) ==
    [loanAmount |-> p, annualRate |-> r, tenureMonths |-> n, emiPaymentDate |-> day,
     loanStartDate |-> start,
     hasFixedRatePeriod |-> f.hasFixedRatePeriod, fixedRate |-> f.fixedRate,
     variableRate |-> f.variableRate, fixedRateEndDate |-> f.fixedRateEndDate,
     hasLumpSum |-> l.hasLumpSum, lumpSumAmount |-> l.lumpSumAmount,
     lumpSumDate |-> l.lumpSumDate,
     hasExtraPayments |-> e.hasExtraPayments,
     extraPaymentAmount |-> e.extraPaymentAmount,
     extraPaymentStartDate |-> e.extraPaymentStartDate,
     extraPaymentEndDate |-> e.extraPaymentEndDate]

AdvancedInputs ==
    { AdvancedInput(p, r, n, day, start, f, l, e) :
      p \in {1200 * Scale}, r \in {0, 5}, n \in {2, 5, MaxTenure},
      day \in PaymentDays, start \in LoanStartDates, f \in FixedRateBlocks,
      l \in LumpSumBlocks, e \in ExtraPaymentBlocks }

\* loans passed to calculateAdvancedMortgage with none of the three blocks
PlainAdvancedInputs ==
    { AdvancedInput(p, r, n, 15, MkDate(2024, 0, 15),
                    CHOOSE b \in FixedRateBlocks : b.fixedRate = Undefined,
                    CHOOSE b \in LumpSumBlocks : b.lumpSumAmount = Undefined,
                    CHOOSE b \in ExtraPaymentBlocks : b.extraPaymentAmount = Undefined) :
      p \in Principals, r \in Rates, n \in Tenures }

\* -------------------------------------------------------------------- state
VARIABLES
    fn,          \* the exported function that was called
    input,       \* its arguments
    pc,          \* "entry", "loop" (at the while test) or "done" (returned)
    args,        \* the arguments generateAmortizationSchedule runs with
    monthlyEMI,  \* const monthlyEMI / originalEMI of the running loop
    balance,     \* let balance
    month,       \* let month
    year,        \* let year
    schedule,    \* const schedule: the records pushed so far
    emiCalls,    \* the calls of calculateMonthlyEMI made so far: <<principal, rate, months>>
    totalInterestPaid,   \* calculateAdvancedMortgage: let totalInterestPaid
    totalLumpSum,        \* calculateAdvancedMortgage: let totalLumpSum
    totalExtraPayments,  \* calculateAdvancedMortgage: let totalExtraPayments
    result,      \* the returned value, "none" before the return
    frames,      \* concurrent calls: the local variables of each call
    heap,        \* concurrent calls: the input objects the callers hold
    state,       \* MortgageProvider: the MortgageState held by useReducer
    deleted,     \* the id of the last dispatch if it was a DELETE_SCENARIO, else null
    now,         \* the clock read by Date.now(), in milliseconds
    lastShowTime,      \* InterstitialAdManager: state.lastShowTime
    calculationCount,  \* InterstitialAdManager: state.calculationCount
    tracked,     \* the calls of trackCalculation made so far
    adLog        \* the interstitials shown so far, one entry per "Showing interstitial ad..."

vars ==
    <<fn, input, pc, args, monthlyEMI, balance, month, year, schedule, emiCalls,
      totalInterestPaid, totalLumpSum, totalExtraPayments, result, frames, heap,
      state, deleted, now, lastShowTime, calculationCount, tracked, adLog>>

\* the variables of the concurrent calls
concurrent == <<frames, heap>>

\* the variables of the scenario store and of the interstitial manager
app == <<state, deleted, now, lastShowTime, calculationCount, tracked, adLog>>

\* null, as the value of currentScenarioId: string | null
Null == <<>>

\* part_004:27-33
initialState ==
    [scenarios |-> <<>>, currentScenarioId |-> Null, currency |-> "USD",
     decimalPlaces |-> 2, theme |-> "light"]

\* AD_FREQUENCY and AD_CONFIG: an interstitial after every N calculations, the
\* minimum number of seconds between two interstitials, ads switched on
interstitialFrequency == 3
interstitialMinInterval == 30
adsEnabled == TRUE

\* the clock when the manager is constructed: later than the epoch by more
\* than the minimum interval
ClockStart == 4 * interstitialMinInterval * 1000

\* the store and the manager as constructed
AppInit ==
    /\ state = initialState
    /\ deleted = Null
    /\ now = ClockStart
    /\ lastShowTime = 0
    /\ calculationCount = 0
    /\ tracked = 0
    /\ adLog = <<>>

advTotals == <<totalInterestPaid, totalLumpSum, totalExtraPayments>>

NoArgs == [principal |-> 0, annualRate |-> 0, tenureMonths |-> 0, monthlyOverpayment |-> 0]

Init ==
    /\ \/ fn \in {"generateAmortizationSchedule", "calculateOverpaymentImpact"}
          /\ input \in GenerateInputs
       \/ fn = "calculatePartPaymentImpact" /\ input \in PartPaymentInputs
       \/ fn = "calculateAdvancedMortgage"
          /\ input \in AdvancedInputs \cup PlainAdvancedInputs
    /\ pc = "entry"
    /\ args = NoArgs
    /\ monthlyEMI = 0
    /\ balance = 0
    /\ month = 0
    /\ year = 0
    /\ schedule = <<>>
    /\ emiCalls = <<>>
    /\ totalInterestPaid = 0
    /\ totalLumpSum = 0
    /\ totalExtraPayments = 0
    /\ result = "none"
    /\ frames = <<>>
    /\ heap = <<>>
    /\ AppInit

\* --------------------------------------------- generateAmortizationSchedule
\* lines 152-158: the state at the first test of the while loop
EnterGenerate(a, calls) ==
    /\ args' = a
    /\ monthlyEMI' = calculateMonthlyEMI(a.principal, a.annualRate, a.tenureMonths)
    /\ emiCalls' = Append(calls, <<a.principal, a.annualRate, a.tenureMonths>>)
    /\ balance' = a.principal
    /\ month' = 0
    /\ year' = 0
    /\ schedule' = <<>>
    /\ pc' = "loop"

\* the while condition of generateAmortizationSchedule (line 160)
GenerateCondition(a, bal, m) == bal > 0 /\ m < a.tenureMonths * 2

GenerateGuard == GenerateCondition(args, balance, month)

\* GenerateRecord without the clamp of lines 168-170
GenerateRecordNoClamp(a, emi, bal, m, y) ==
    LET interestPayment == Interest(bal, a.annualRate)
        principalPayment == emi - interestPayment + a.monthlyOverpayment
    IN  [month |-> m + 1, year |-> y, payment |-> interestPayment + principalPayment,
         principal |-> principalPayment, interest |-> interestPayment,
         balance |-> Max(0, bal - principalPayment)]

\* GenerateRecord with the overpayment taken off the principal payment
GenerateRecordMinusOverpayment(a, emi, bal, m, y) ==
    LET interestPayment == Interest(bal, a.annualRate)
        uncapped == emi - interestPayment - a.monthlyOverpayment
        principalPayment == IF uncapped > bal THEN bal ELSE uncapped
    IN  [month |-> m + 1, year |-> y, payment |-> interestPayment + principalPayment,
         principal |-> principalPayment, interest |-> interestPayment,
         balance |-> Max(0, bal - principalPayment)]

\* the record one iteration pushes (lines 161-186), from the loop's variables
GenerateRecord(a, emi, bal, m, y) ==
    LET monthlyRate == a.annualRate
        interestPayment == Interest(bal, monthlyRate)
        uncapped == emi - interestPayment + a.monthlyOverpayment
        principalPayment == IF uncapped > bal THEN bal ELSE uncapped
        totalPayment == interestPayment + principalPayment
    IN  [month |-> m + 1, year |-> y, payment |-> totalPayment,
         principal |-> principalPayment, interest |-> interestPayment,
         balance |-> Max(0, bal - principalPayment)]

\* NextMonth with the reset one month late
NextMonthResetLate(m) == IF m + 1 = 13 THEN 0 ELSE m + 1

\* the month and year a loop iteration leaves behind (lines 189-193)
NextMonth(m) == IF m + 1 = 12 THEN 0 ELSE m + 1
NextYear(m, y) == IF m + 1 = 12 THEN y + 1 ELSE y

\* the loop run to its end from one of its states (cut at MaxIter records)
RECURSIVE GenerateFrom(_, _, _, _, _, _)
GenerateFrom(a, emi, bal, m, y, sched) ==
    IF GenerateCondition(a, bal, m) /\ Len(sched) < MaxIter
    THEN LET rec == GenerateRecord(a, emi, bal, m, y)
         IN  GenerateFrom(a, emi, bal - rec.principal, NextMonth(m), NextYear(m, y),
                          Append(sched, rec))
    ELSE sched

\* the value of a call of generateAmortizationSchedule
generateAmortizationSchedule(principal, annualRate, tenureMonths, monthlyOverpayment) ==
    GenerateFrom([principal |-> principal, annualRate |-> annualRate,
                  tenureMonths |-> tenureMonths,
                  monthlyOverpayment |-> monthlyOverpayment],
                 calculateMonthlyEMI(principal, annualRate, tenureMonths),
                 principal, 0, 0, <<>>)

CallGenerate ==
    /\ pc = "entry"
    /\ fn = "generateAmortizationSchedule"
    /\ EnterGenerate(input, emiCalls)
    /\ UNCHANGED <<concurrent, app, fn, input, result, advTotals>>

\* GenerateLoop taking the whole payment off the balance
GenerateLoopPaysTotal ==
    /\ pc = "loop"
    /\ fn \in StandardFns
    /\ GenerateGuard
    /\ Len(schedule) < MaxIter
    /\ LET rec == GenerateRecord(args, monthlyEMI, balance, month, year)
       IN  /\ balance' = balance - rec.payment
           /\ schedule' = Append(schedule, rec)
    /\ month' = NextMonth(month)
    /\ year' = NextYear(month, year)
    /\ UNCHANGED <<concurrent, app, fn, input, pc, args, monthlyEMI, emiCalls, result, advTotals>>

GenerateLoop ==
    /\ pc = "loop"
    /\ fn \in StandardFns
    /\ GenerateGuard
    /\ Len(schedule) < MaxIter
    /\ LET rec == GenerateRecord(args, monthlyEMI, balance, month, year)
       IN  /\ balance' = balance - rec.principal
           /\ schedule' = Append(schedule, rec)
    /\ month' = NextMonth(month)
    /\ year' = NextYear(month, year)
    /\ UNCHANGED <<concurrent, app, fn, input, pc, args, monthlyEMI, emiCalls, result, advTotals>>

\* ----------------------------------------------- calculateOverpaymentImpact
CallOverpayment ==
    /\ pc = "entry"
    /\ fn = "calculateOverpaymentImpact"
    /\ EnterGenerate(input,
                     <<<<input.principal, input.annualRate, input.tenureMonths>>>>)
    /\ UNCHANGED <<concurrent, app, fn, input, result, advTotals>>

\* lines 214-246, from the arguments and the schedule of line 223
OverpaymentResultOf(in, sched) ==
    LET originalEMI ==
            calculateMonthlyEMI(in.principal, in.annualRate, in.tenureMonths)
        originalTotalInterest ==
            calculateTotalInterestAndAmount(in.principal, originalEMI,
                                            in.tenureMonths).totalInterest
        newTenureMonths == Len(sched)
        newTotalInterest == SumOf(sched, "interest")
        interestSaved == originalTotalInterest - newTotalInterest
    IN  [originalTenureMonths |-> in.tenureMonths,
         newTenureMonths |-> newTenureMonths,
         tenureSaved |-> in.tenureMonths - newTenureMonths,
         originalTotalInterest |-> originalTotalInterest,
         newTotalInterest |-> newTotalInterest,
         interestSaved |-> interestSaved,
         interestSavedPercentage |-> Percentage(interestSaved, originalTotalInterest),
         monthlyOverpayment |-> in.monthlyOverpayment,
         schedule |-> sched]

\* OverpaymentResult with the difference of line 233 the wrong way round
OverpaymentResultSwapped ==
    LET originalEMI ==
            calculateMonthlyEMI(input.principal, input.annualRate, input.tenureMonths)
        originalTotalInterest ==
            calculateTotalInterestAndAmount(input.principal, originalEMI,
                                            input.tenureMonths).totalInterest
        newTotalInterest == SumOf(schedule, "interest")
        interestSaved == newTotalInterest - originalTotalInterest
    IN  [originalTenureMonths |-> input.tenureMonths,
         newTenureMonths |-> Len(schedule),
         tenureSaved |-> input.tenureMonths - Len(schedule),
         originalTotalInterest |-> originalTotalInterest,
         newTotalInterest |-> newTotalInterest,
         interestSaved |-> interestSaved,
         interestSavedPercentage |-> Percentage(interestSaved, originalTotalInterest),
         monthlyOverpayment |-> input.monthlyOverpayment,
         schedule |-> schedule]

\* OverpaymentResult with tenureSaved the wrong way round
OverpaymentResultTenureReversed ==
    [OverpaymentResultOf(input, schedule) EXCEPT
         !.tenureSaved = Len(schedule) - input.tenureMonths]

OverpaymentResult == OverpaymentResultOf(input, schedule)

\* ----------------------------------------------- calculatePartPaymentImpact
\* lines 383-397: the limit, the original scenario and the new balance
PartPaymentHeadOf(in) ==
    LET maxAllowedPayment == RoundDiv(in.originalLoanAmount, 10)
        originalEMI ==
            calculateMonthlyEMI(in.currentBalance, in.annualRate,
                                in.remainingTenureMonths)
    IN  [maxAllowedPayment |-> maxAllowedPayment,
         isWithinLimit |-> in.lumpSumAmount <= maxAllowedPayment,
         originalTotalInterest |->
             calculateTotalInterestAndAmount(in.currentBalance, originalEMI,
                                             in.remainingTenureMonths).totalInterest,
         newBalance |-> Max(0, in.currentBalance - in.lumpSumAmount)]

\* the objects returned at lines 399-415 and 428-441
PartPaymentResultOf(in, h, sched) ==
    IF h.newBalance = 0
    THEN [originalBalance |-> in.currentBalance,
          lumpSumAmount |-> in.lumpSumAmount,
          newBalance |-> 0,
          principalReduction |-> in.currentBalance,
          originalTenureMonths |-> in.remainingTenureMonths,
          newTenureMonths |-> 0,
          tenureSaved |-> in.remainingTenureMonths,
          originalTotalInterest |-> h.originalTotalInterest,
          newTotalInterest |-> 0,
          interestSaved |-> h.originalTotalInterest,
          maxAllowedPayment |-> h.maxAllowedPayment,
          isWithinLimit |-> h.isWithinLimit,
          schedule |-> <<>>]
    ELSE LET newTotalInterest == SumOf(sched, "interest")
         IN  [originalBalance |-> in.currentBalance,
              lumpSumAmount |-> in.lumpSumAmount,
              newBalance |-> h.newBalance,
              principalReduction |-> in.lumpSumAmount,
              originalTenureMonths |-> in.remainingTenureMonths,
              newTenureMonths |-> Len(sched),
              tenureSaved |-> in.remainingTenureMonths - Len(sched),
              originalTotalInterest |-> h.originalTotalInterest,
              newTotalInterest |-> newTotalInterest,
              interestSaved |-> h.originalTotalInterest - newTotalInterest,
              maxAllowedPayment |-> h.maxAllowedPayment,
              isWithinLimit |-> h.isWithinLimit,
              schedule |-> sched]

\* PartPaymentHead with the operands of line 397 exchanged
PartPaymentHeadSwapped ==
    LET maxAllowedPayment == RoundDiv(input.originalLoanAmount, 10)
        originalEMI ==
            calculateMonthlyEMI(input.currentBalance, input.annualRate,
                                input.remainingTenureMonths)
    IN  [maxAllowedPayment |-> maxAllowedPayment,
         isWithinLimit |-> input.lumpSumAmount <= maxAllowedPayment,
         originalTotalInterest |->
             calculateTotalInterestAndAmount(input.currentBalance, originalEMI,
                                             input.remainingTenureMonths).totalInterest,
         newBalance |-> Max(0, input.lumpSumAmount - input.currentBalance)]

\* PartPaymentHead with the limit enforced: the lump sum is cut to the cap
PartPaymentHeadCapped ==
    LET maxAllowedPayment == RoundDiv(input.originalLoanAmount, 10)
        originalEMI ==
            calculateMonthlyEMI(input.currentBalance, input.annualRate,
                                input.remainingTenureMonths)
    IN  [maxAllowedPayment |-> maxAllowedPayment,
         isWithinLimit |-> input.lumpSumAmount <= maxAllowedPayment,
         originalTotalInterest |->
             calculateTotalInterestAndAmount(input.currentBalance, originalEMI,
                                             input.remainingTenureMonths).totalInterest,
         newBalance |-> Max(0, input.currentBalance
                                   - Min(input.lumpSumAmount, maxAllowedPayment))]

PartPaymentHead == PartPaymentHeadOf(input)

PartPaymentResult(h, sched) == PartPaymentResultOf(input, h, sched)

\* the value of a call of calculatePartPaymentImpact (lines 376-442)
calculatePartPaymentImpact(currentBalance, remainingTenureMonths, annualRate, lumpSumAmount, originalLoanAmount) ==
    LET in == [currentBalance |-> currentBalance,
               remainingTenureMonths |-> remainingTenureMonths,
               annualRate |-> annualRate, lumpSumAmount |-> lumpSumAmount,
               originalLoanAmount |-> originalLoanAmount]
        h == PartPaymentHeadOf(in)
    IN  PartPaymentResultOf(in, h,
                            IF h.newBalance = 0 THEN <<>>
                            ELSE generateAmortizationSchedule(h.newBalance, annualRate,
                                                              remainingTenureMonths, 0))

\* the early return of lines 399-415, or lines 417-421 up to the loop
CallPartPayment ==
    /\ pc = "entry"
    /\ fn = "calculatePartPaymentImpact"
    /\ LET h == PartPaymentHead
           first == <<input.currentBalance, input.annualRate,
                      input.remainingTenureMonths>>
           second == <<h.newBalance, input.annualRate, input.remainingTenureMonths>>
       IN  IF h.newBalance = 0
           THEN /\ result' = PartPaymentResult(h, <<>>)
                /\ emiCalls' = <<first>>
                /\ pc' = "done"
                /\ UNCHANGED <<args, monthlyEMI, balance, month, year, schedule>>
           ELSE /\ EnterGenerate([principal |-> h.newBalance,
                                  annualRate |-> input.annualRate,
                                  tenureMonths |-> input.remainingTenureMonths,
                                  monthlyOverpayment |-> 0],
                                 <<first, second>>)
                /\ UNCHANGED result
    /\ UNCHANGED <<concurrent, app, fn, input, advTotals>>

\* the loop of generateAmortizationSchedule is left and the caller finishes
GenerateReturn ==
    /\ pc = "loop"
    /\ fn \in StandardFns
    /\ ~GenerateGuard
    /\ result' = CASE fn = "generateAmortizationSchedule" -> schedule
                   [] fn = "calculateOverpaymentImpact" -> OverpaymentResult
                   [] fn = "calculatePartPaymentImpact" ->
                          PartPaymentResult(PartPaymentHead, schedule)
    /\ pc' = "done"
    /\ UNCHANGED <<concurrent, app, fn, input, args, monthlyEMI, balance, month, year, schedule, emiCalls, advTotals>>

\* ------------------------------------------------- calculateAdvancedMortgage
\* CallAdvanced with the EMI taken at the fixed rate of a fixed-rate period
CallAdvancedEMIAtFixedRate ==
    /\ pc = "entry"
    /\ fn = "calculateAdvancedMortgage"
    /\ monthlyEMI' =
           calculateEMI(input.loanAmount,
                        getMonthlyRate(IF input.hasFixedRatePeriod
                                       THEN input.fixedRate[1] ELSE input.annualRate),
                        input.tenureMonths)
    /\ balance' = input.loanAmount
    /\ month' = 0
    /\ schedule' = <<>>
    /\ totalInterestPaid' = 0
    /\ totalLumpSum' = 0
    /\ totalExtraPayments' = 0
    /\ pc' = "loop"
    /\ UNCHANGED <<concurrent, app, fn, input, args, year, emiCalls, result>>

\* test.ts:257-267: the state at the first test of the while loop
CallAdvanced ==
    /\ pc = "entry"
    /\ fn = "calculateAdvancedMortgage"
    /\ monthlyEMI' = calculateEMI(input.loanAmount, getMonthlyRate(input.annualRate),
                                  input.tenureMonths)
    /\ balance' = input.loanAmount
    /\ month' = 0
    /\ schedule' = <<>>
    /\ totalInterestPaid' = 0
    /\ totalLumpSum' = 0
    /\ totalExtraPayments' = 0
    /\ pc' = "loop"
    /\ UNCHANGED <<concurrent, app, fn, input, args, year, emiCalls, result>>

\* AdvancedGuard without the safety cap
AdvancedGuardNoCap == balance > 0

\* the while condition of calculateAdvancedMortgage (test.ts:270)
AdvancedCondition(in, bal, m) == bal > 0 /\ m < in.tenureMonths * 2

AdvancedGuard == AdvancedCondition(input, balance, month)

\* CurrentRate with the end date itself outside the fixed-rate period
CurrentRateStrict(in, paymentDate) ==
    IF in.hasFixedRatePeriod /\ IsDefined(in.fixedRateEndDate)
    THEN IF /\ DateValue(paymentDate) < DateValue(in.fixedRateEndDate[1])
            /\ IsDefined(in.fixedRate)
         THEN in.fixedRate[1]
         ELSE IF IsDefined(in.variableRate) THEN in.variableRate[1]
              ELSE in.annualRate
    ELSE in.annualRate

\* CurrentRate comparing the month of the year only
CurrentRateByMonthOfYear(in, paymentDate) ==
    IF in.hasFixedRatePeriod /\ IsDefined(in.fixedRateEndDate)
    THEN IF /\ paymentDate.m <= in.fixedRateEndDate[1].m
            /\ IsDefined(in.fixedRate)
         THEN in.fixedRate[1]
         ELSE IF IsDefined(in.variableRate) THEN in.variableRate[1]
              ELSE in.annualRate
    ELSE in.annualRate

\* test.ts:274-281
CurrentRate(in, paymentDate) ==
    IF in.hasFixedRatePeriod /\ IsDefined(in.fixedRateEndDate)
    THEN IF /\ DateValue(paymentDate) <= DateValue(in.fixedRateEndDate[1])
            /\ IsDefined(in.fixedRate)
         THEN in.fixedRate[1]
         ELSE IF IsDefined(in.variableRate) THEN in.variableRate[1]
              ELSE in.annualRate
    ELSE in.annualRate

\* InExtraPaymentWindow with the end date itself outside the window
InExtraPaymentWindowExclusive(in, paymentDate) ==
    /\ in.hasExtraPayments
    /\ IsDefined(in.extraPaymentStartDate)
    /\ IsDefined(in.extraPaymentEndDate)
    /\ TruthyNumber(in.extraPaymentAmount)
    /\ DateValue(paymentDate) >= DateValue(in.extraPaymentStartDate[1])
    /\ DateValue(paymentDate) < DateValue(in.extraPaymentEndDate[1])

\* test.ts:296-297
InExtraPaymentWindow(in, paymentDate) ==
    /\ in.hasExtraPayments
    /\ IsDefined(in.extraPaymentStartDate)
    /\ IsDefined(in.extraPaymentEndDate)
    /\ TruthyNumber(in.extraPaymentAmount)
    /\ DateValue(paymentDate) >= DateValue(in.extraPaymentStartDate[1])
    /\ DateValue(paymentDate) <= DateValue(in.extraPaymentEndDate[1])

\* InLumpSumMonth without the test of hasLumpSum
InLumpSumMonthAlways(in, paymentDate) ==
    /\ IsDefined(in.lumpSumDate)
    /\ TruthyNumber(in.lumpSumAmount)
    /\ isSameMonth(paymentDate, in.lumpSumDate[1])

\* test.ts:306-307
InLumpSumMonth(in, paymentDate) ==
    /\ in.hasLumpSum
    /\ IsDefined(in.lumpSumDate)
    /\ TruthyNumber(in.lumpSumAmount)
    /\ isSameMonth(paymentDate, in.lumpSumDate[1])

\* AdvancedRecord without the adjustment of totalPayment at the clamp
AdvancedRecordPaymentNotClamped(in, emi, bal, m) ==
    LET paymentDate == getPaymentDate(in.loanStartDate, m, in.emiPaymentDate)
        currentRate == CurrentRate(in, paymentDate)
        interestPayment == Interest(bal, getMonthlyRate(currentRate))
        isExtraPaymentMonth == InExtraPaymentWindow(in, paymentDate)
        isLumpSumMonth == InLumpSumMonth(in, paymentDate)
        extra == IF isExtraPaymentMonth THEN in.extraPaymentAmount[1] ELSE 0
        lump == IF isLumpSumMonth THEN in.lumpSumAmount[1] ELSE 0
        uncapped == emi - interestPayment + extra + lump
        exceeds == uncapped > bal
    IN  [date |-> paymentDate,
         monthNumber |-> m + 1,
         principalPayment |-> IF exceeds THEN bal ELSE uncapped,
         interestPayment |-> interestPayment,
         totalPayment |-> emi + extra + lump,
         balance |-> Max(0, bal - (IF exceeds THEN bal ELSE uncapped)),
         isLumpSumMonth |-> isLumpSumMonth,
         isExtraPaymentMonth |-> isExtraPaymentMonth,
         interestRate |-> currentRate]

\* the PaymentDetail one iteration pushes (test.ts:271-333), from the input and
\* the loop's variables
AdvancedRecord(in, emi, bal, m) ==
    LET paymentDate == getPaymentDate(in.loanStartDate, m, in.emiPaymentDate)
        currentRate == CurrentRate(in, paymentDate)
        interestPayment == Interest(bal, getMonthlyRate(currentRate))
        isExtraPaymentMonth == InExtraPaymentWindow(in, paymentDate)
        isLumpSumMonth == InLumpSumMonth(in, paymentDate)
        extra == IF isExtraPaymentMonth THEN in.extraPaymentAmount[1] ELSE 0
        lump == IF isLumpSumMonth THEN in.lumpSumAmount[1] ELSE 0
        uncapped == emi - interestPayment + extra + lump
        exceeds == uncapped > bal
    IN  [date |-> paymentDate,
         monthNumber |-> m + 1,
         principalPayment |-> IF exceeds THEN bal ELSE uncapped,
         interestPayment |-> interestPayment,
         totalPayment |-> IF exceeds THEN bal + interestPayment
                          ELSE emi + extra + lump,
         balance |-> Max(0, bal - (IF exceeds THEN bal ELSE uncapped)),
         isLumpSumMonth |-> isLumpSumMonth,
         isExtraPaymentMonth |-> isExtraPaymentMonth,
         interestRate |-> currentRate]

AdvancedLoop ==
    /\ pc = "loop"
    /\ fn = "calculateAdvancedMortgage"
    /\ AdvancedGuard
    /\ LET rec == AdvancedRecord(input, monthlyEMI, balance, month)
       IN  /\ totalInterestPaid' = totalInterestPaid + rec.interestPayment
           /\ totalExtraPayments' =
                  totalExtraPayments +
                  (IF rec.isExtraPaymentMonth THEN input.extraPaymentAmount[1] ELSE 0)
           /\ totalLumpSum' =
                  totalLumpSum + (IF rec.isLumpSumMonth THEN input.lumpSumAmount[1] ELSE 0)
           /\ balance' = balance - rec.principalPayment
           /\ schedule' = Append(schedule, rec)
    /\ month' = month + 1
    \* test.ts:338-340: the safety check after month++
    /\ pc' = IF month + 1 > input.tenureMonths * 2 THEN "break" ELSE "loop"
    /\ UNCHANGED <<concurrent, app, fn, input, args, monthlyEMI, year, emiCalls, result>>

\* AdvancedResult with the baseline taken at the rate of the first record
AdvancedResultBaselineAtFirstRate(in, originalEMI, sched, interestPaid, lumpSums, extraPayments) ==
    LET newTenureMonths == Len(sched)
        firstRate == IF sched = <<>> THEN in.annualRate ELSE sched[1].interestRate
        originalTotalInterest ==
            calculateEMI(in.loanAmount, getMonthlyRate(firstRate), in.tenureMonths)
                * in.tenureMonths - in.loanAmount
        newTotalInterest == interestPaid
        interestSaved == originalTotalInterest - newTotalInterest
    IN  [schedule |-> sched,
         originalTenureMonths |-> in.tenureMonths,
         newTenureMonths |-> newTenureMonths,
         tenureSaved |-> in.tenureMonths - newTenureMonths,
         originalTotalInterest |-> originalTotalInterest,
         newTotalInterest |-> newTotalInterest,
         interestSaved |-> interestSaved,
         interestSavedPercentage |-> Percentage(interestSaved, originalTotalInterest),
         totalLumpSum |-> lumpSums,
         totalExtraPayments |-> extraPayments,
         originalMonthlyEMI |-> originalEMI,
         newMonthlyEMI |-> originalEMI]

\* test.ts:343-366
AdvancedResult(in, originalEMI, sched, interestPaid, lumpSums, extraPayments) ==
    LET newTenureMonths == Len(sched)
        originalTotalInterest == originalEMI * in.tenureMonths - in.loanAmount
        newTotalInterest == interestPaid
        interestSaved == originalTotalInterest - newTotalInterest
    IN  [schedule |-> sched,
         originalTenureMonths |-> in.tenureMonths,
         newTenureMonths |-> newTenureMonths,
         tenureSaved |-> in.tenureMonths - newTenureMonths,
         originalTotalInterest |-> originalTotalInterest,
         newTotalInterest |-> newTotalInterest,
         interestSaved |-> interestSaved,
         interestSavedPercentage |-> Percentage(interestSaved, originalTotalInterest),
         totalLumpSum |-> lumpSums,
         totalExtraPayments |-> extraPayments,
         originalMonthlyEMI |-> originalEMI,
         newMonthlyEMI |-> originalEMI]

AdvancedReturn ==
    /\ fn = "calculateAdvancedMortgage"
    /\ pc = "break" \/ (pc = "loop" /\ ~AdvancedGuard)
    /\ result' = AdvancedResult(input, monthlyEMI, schedule, totalInterestPaid,
                                totalLumpSum, totalExtraPayments)
    /\ pc' = "done"
    /\ UNCHANGED <<concurrent, app, fn, input, args, monthlyEMI, balance, month, year, schedule, emiCalls,
                   advTotals>>

Next ==
    \/ CallGenerate
    \/ CallOverpayment
    \/ CallPartPayment
    \/ GenerateLoop
    \/ GenerateReturn
    \/ CallAdvanced
    \/ AdvancedLoop
    \/ AdvancedReturn

Spec == Init /\ [][Next]_vars

\* --------------------------------------------------------- concurrent calls
\* Several calls run at once. Every variable of the functions is a local of one
\* call (neither source file has a variable at module level), so each call has
\* a frame of its own; what calls can share is an argument object, the
\* AdvancedMortgageInput with its Date fields, which a call reads in every
\* iteration (test.ts:271-307). The calls are interleaved between iterations.
CallIds == {1, 2}
ObjectIds == {1, 2}

\* the locals of a call that is about to start
EntryFrame(f, i) ==
    [fn |-> f, input |-> i, pc |-> "entry", args |-> NoArgs, monthlyEMI |-> 0,
     balance |-> 0, month |-> 0, year |-> 0, schedule |-> <<>>,
     totalInterestPaid |-> 0, totalLumpSum |-> 0, totalExtraPayments |-> 0,
     result |-> "none"]

\* lines 152-158 on a frame
EnteredFrame(f, a) ==
    [f EXCEPT !.args = a,
              !.monthlyEMI = calculateMonthlyEMI(a.principal, a.annualRate, a.tenureMonths),
              !.balance = a.principal, !.month = 0, !.year = 0, !.schedule = <<>>,
              !.pc = "loop"]

\* the step a call takes from frame f when its input reads as in
FrameStep(f, in) ==
    CASE f.pc = "entry" /\ f.fn \in {"generateAmortizationSchedule",
                                     "calculateOverpaymentImpact"} ->
             EnteredFrame(f, in)
      [] f.pc = "entry" /\ f.fn = "calculatePartPaymentImpact" ->
             LET h == PartPaymentHeadOf(in)
             IN  IF h.newBalance = 0
                 THEN [f EXCEPT !.result = PartPaymentResultOf(in, h, <<>>), !.pc = "done"]
                 ELSE EnteredFrame(f, [principal |-> h.newBalance,
                                       annualRate |-> in.annualRate,
                                       tenureMonths |-> in.remainingTenureMonths,
                                       monthlyOverpayment |-> 0])
      [] f.pc = "entry" /\ f.fn = "calculateAdvancedMortgage" ->
             [f EXCEPT !.monthlyEMI = calculateEMI(in.loanAmount,
                                                   getMonthlyRate(in.annualRate),
                                                   in.tenureMonths),
                       !.balance = in.loanAmount, !.month = 0, !.schedule = <<>>,
                       !.totalInterestPaid = 0, !.totalLumpSum = 0,
                       !.totalExtraPayments = 0, !.pc = "loop"]
      [] f.pc = "loop" /\ f.fn \in StandardFns
             /\ GenerateCondition(f.args, f.balance, f.month) ->
             LET rec == GenerateRecord(f.args, f.monthlyEMI, f.balance, f.month, f.year)
             IN  [f EXCEPT !.balance = f.balance - rec.principal,
                           !.schedule = Append(f.schedule, rec),
                           !.month = NextMonth(f.month),
                           !.year = NextYear(f.month, f.year)]
      [] f.pc = "loop" /\ f.fn \in StandardFns
             /\ ~GenerateCondition(f.args, f.balance, f.month) ->
             [f EXCEPT !.pc = "done",
                       !.result =
                           CASE f.fn = "generateAmortizationSchedule" -> f.schedule
                             [] f.fn = "calculateOverpaymentImpact" ->
                                    OverpaymentResultOf(in, f.schedule)
                             [] f.fn = "calculatePartPaymentImpact" ->
                                    PartPaymentResultOf(in, PartPaymentHeadOf(in),
                                                        f.schedule)]
      [] f.pc = "loop" /\ f.fn = "calculateAdvancedMortgage"
             /\ AdvancedCondition(in, f.balance, f.month) ->
             LET rec == AdvancedRecord(in, f.monthlyEMI, f.balance, f.month)
             IN  [f EXCEPT !.totalInterestPaid = @ + rec.interestPayment,
                           !.totalExtraPayments =
                               @ + (IF rec.isExtraPaymentMonth
                                    THEN in.extraPaymentAmount[1] ELSE 0),
                           !.totalLumpSum =
                               @ + (IF rec.isLumpSumMonth THEN in.lumpSumAmount[1] ELSE 0),
                           !.balance = f.balance - rec.principalPayment,
                           !.schedule = Append(f.schedule, rec),
                           !.month = f.month + 1,
                           !.pc = IF f.month + 1 > in.tenureMonths * 2
                                  THEN "break" ELSE "loop"]
      [] f.fn = "calculateAdvancedMortgage"
             /\ (f.pc = "break"
                 \/ (f.pc = "loop" /\ ~AdvancedCondition(in, f.balance, f.month))) ->
             [f EXCEPT !.pc = "done",
                       !.result = AdvancedResult(in, f.monthlyEMI, f.schedule,
                                                 f.totalInterestPaid, f.totalLumpSum,
                                                 f.totalExtraPayments)]
      [] OTHER -> f

\* the frame of the single call of Spec, and its steps as steps of that frame
CurrentFrame ==
    [fn |-> fn, input |-> input, pc |-> pc, args |-> args, monthlyEMI |-> monthlyEMI,
     balance |-> balance, month |-> month, year |-> year, schedule |-> schedule,
     totalInterestPaid |-> totalInterestPaid, totalLumpSum |-> totalLumpSum,
     totalExtraPayments |-> totalExtraPayments, result |-> result]

StepIsFrameStep == [][CurrentFrame' = FrameStep(CurrentFrame, input)]_vars

\* a call run alone to its return, from frame f
RECURSIVE RunAlone(_, _)
RunAlone(f, in) == IF f.pc = "done" THEN f.result ELSE RunAlone(FrameStep(f, in), in)

\* the objects the callers pass to calculateAdvancedMortgage
InitialHeap ==
    <<AdvancedInput(1200 * Scale, 5, 2, 1, MkDate(2024, 0, 31),
                    CHOOSE b \in FixedRateBlocks :
                        b.hasFixedRatePeriod /\ b.variableRate = Some(12),
                    CHOOSE b \in LumpSumBlocks :
                        b.hasLumpSum /\ b.lumpSumDate = Some(MkDate(2024, 2, 10)),
                    CHOOSE b \in ExtraPaymentBlocks :
                        b.hasExtraPayments /\ b.extraPaymentAmount # Some(0)),
      AdvancedInput(1200 * Scale, 0, 3, 15, MkDate(2024, 0, 15),
                    CHOOSE b \in FixedRateBlocks : b.fixedRate = Undefined,
                    CHOOSE b \in LumpSumBlocks : b.lumpSumAmount = Undefined,
                    CHOOSE b \in ExtraPaymentBlocks :
                        b.hasExtraPayments /\ b.extraPaymentAmount # Some(0))>>

\* the calls that run concurrently: numbers are passed by value, the
\* AdvancedMortgageInput as a reference to an object, which two calls may share
ConcurrentCalls ==
    {EntryFrame("generateAmortizationSchedule",
                [principal |-> 1200 * Scale, annualRate |-> 5, tenureMonths |-> 2,
                 monthlyOverpayment |-> 0]),
     EntryFrame("calculateOverpaymentImpact",
                [principal |-> 1000 * Scale, annualRate |-> 12, tenureMonths |-> 3,
                 monthlyOverpayment |-> 100 * Scale]),
     EntryFrame("calculatePartPaymentImpact",
                [currentBalance |-> 1200 * Scale, remainingTenureMonths |-> 2,
                 annualRate |-> 5, lumpSumAmount |-> 100 * Scale,
                 originalLoanAmount |-> 1200 * Scale])}
    \cup {EntryFrame("calculateAdvancedMortgage", o) : o \in ObjectIds}

\* what the input of a call reads as: its arguments, or the object it refers to
InputOf(f, h) == IF f.fn = "calculateAdvancedMortgage" THEN h[f.input] ELSE f.input

\* HeapAfter with an addMonths that moves the Date it is given
HeapAfterAddMonthsInPlace(f, h) ==
    IF f.fn = "calculateAdvancedMortgage" /\ f.pc = "loop"
       /\ AdvancedCondition(h[f.input], f.balance, f.month)
    THEN [h EXCEPT ![f.input].loanStartDate = addMonths(@, f.month)]
    ELSE h

\* the objects after a step of a call: no function assigns to a field of its
\* input, and addMonths works on a copy of the Date (test.ts:238)
HeapAfter(f, h) == h

ConcurrentInit ==
    /\ frames \in [CallIds -> ConcurrentCalls]
    /\ heap = InitialHeap
    /\ fn = "none"
    /\ input = NoArgs
    /\ pc = "done"
    /\ args = NoArgs
    /\ monthlyEMI = 0
    /\ balance = 0
    /\ month = 0
    /\ year = 0
    /\ schedule = <<>>
    /\ emiCalls = <<>>
    /\ totalInterestPaid = 0
    /\ totalLumpSum = 0
    /\ totalExtraPayments = 0
    /\ result = "none"
    /\ AppInit

\* the variables of the single call of Spec
single ==
    <<fn, input, pc, args, monthlyEMI, balance, month, year, schedule, emiCalls,
      totalInterestPaid, totalLumpSum, totalExtraPayments, result>>

\* call c takes its next step
FrameTakesStep(c) ==
    /\ frames' = [frames EXCEPT ![c] = FrameStep(frames[c], InputOf(frames[c], heap))]
    /\ heap' = HeapAfter(frames[c], heap)
    /\ UNCHANGED <<single, app>>

\* call c is entered and runs up to its loop (or to its early return)
ConcurrentCall(c) == frames[c].pc = "entry" /\ FrameTakesStep(c)

\* call c runs one iteration of its loop
ConcurrentLoop(c) ==
    /\ frames[c].pc = "loop"
    /\ Len(frames[c].schedule) < MaxIter
    /\ IF frames[c].fn = "calculateAdvancedMortgage"
       THEN AdvancedCondition(heap[frames[c].input], frames[c].balance, frames[c].month)
       ELSE GenerateCondition(frames[c].args, frames[c].balance, frames[c].month)
    /\ FrameTakesStep(c)

\* call c leaves its loop and returns
ConcurrentReturn(c) ==
    /\ \/ frames[c].pc = "break"
       \/ /\ frames[c].pc = "loop"
          /\ IF frames[c].fn = "calculateAdvancedMortgage"
             THEN ~AdvancedCondition(heap[frames[c].input], frames[c].balance,
                                     frames[c].month)
             ELSE ~GenerateCondition(frames[c].args, frames[c].balance, frames[c].month)
    /\ FrameTakesStep(c)

ConcurrentNext ==
    \E c \in CallIds : ConcurrentCall(c) \/ ConcurrentLoop(c) \/ ConcurrentReturn(c)

ConcurrentSpec == ConcurrentInit /\ [][ConcurrentNext]_vars

\* ----------------------------------------------------------- scenario store
MaxScenarios == 3

\* the ids the screens give a scenario (`scenario_${Date.now()}`), and the
\* ids a string may be
ScenarioIds == {"scenario_1", "scenario_2", "scenario_3"}
AnyIds == {"scenario_1", "scenario_2", ""}

\* a MortgageScenario: its id, and its name for the rest of its fields
Scenarios(ids) == [id : ids, name : {"Home", "Home (edited)"}]

\* the truth value of a string | undefined (undefined and "" are false)
TruthyString(o) == o # <<>> /\ o[1] # ""

\* state.scenarios.map((s) => s.id === payload.id ? payload : s)
MapScenarios(scenarios, payload) ==
    [k \in 1 .. Len(scenarios) |->
        IF scenarios[k].id = payload.id THEN payload ELSE scenarios[k]]

\* Remaining dropping the first scenario of the id only
RemainingFirstOnly(scenarios, id) ==
    IF \E k \in 1 .. Len(scenarios) : scenarios[k].id = id
    THEN LET first == CHOOSE k \in 1 .. Len(scenarios) :
                          /\ scenarios[k].id = id
                          /\ \A j \in 1 .. (k - 1) : scenarios[j].id # id
         IN  SubSeq(scenarios, 1, first - 1) \o SubSeq(scenarios, first + 1, Len(scenarios))
    ELSE scenarios

\* const remaining = state.scenarios.filter((s) => s.id !== action.payload)
Remaining(scenarios, id) ==
    LET Keep(s) == s.id # id
    IN  SelectSeq(scenarios, Keep)

\* CurrentAfterDelete leaving the current id as it is
CurrentAfterDeleteKept(current, id, remaining) == current

\* state.currentScenarioId === payload ? remaining[0]?.id || null : state.currentScenarioId
CurrentAfterDelete(current, id, remaining) ==
    IF current = Some(id)
    THEN LET first == IF remaining = <<>> THEN Undefined ELSE Some(remaining[1].id)
         IN  IF TruthyString(first) THEN first ELSE Null
    ELSE current

\* mortgageReducer (part_004:35-91)
mortgageReducer(st, action) ==
    CASE action.type = "ADD_SCENARIO" ->
             [st EXCEPT !.scenarios = Append(st.scenarios, action.payload),
                        !.currentScenarioId = Some(action.payload.id)]
      [] action.type = "UPDATE_SCENARIO" ->
             [st EXCEPT !.scenarios = MapScenarios(st.scenarios, action.payload)]
      [] action.type = "DELETE_SCENARIO" ->
             LET remaining == Remaining(st.scenarios, action.payload)
             IN  [st EXCEPT !.scenarios = remaining,
                            !.currentScenarioId =
                                CurrentAfterDelete(st.currentScenarioId, action.payload,
                                                   remaining)]
      [] action.type = "SET_CURRENT_SCENARIO" ->
             [st EXCEPT !.currentScenarioId = action.payload]
      [] action.type = "SET_CURRENCY" -> [st EXCEPT !.currency = action.payload]
      [] action.type = "SET_DECIMAL_PLACES" -> [st EXCEPT !.decimalPlaces = action.payload]
      [] action.type = "SET_THEME" -> [st EXCEPT !.theme = action.payload]
      [] action.type = "LOAD_STATE" -> action.payload
      [] OTHER -> st

\* state.scenarios.find((s) => s.id === state.currentScenarioId)
getCurrentScenario(st) ==
    LET matches == {k \in 1 .. Len(st.scenarios) :
                       Some(st.scenarios[k].id) = st.currentScenarioId}
    IN  IF matches = {} THEN Undefined
        ELSE Some(st.scenarios[CHOOSE k \in matches : \A j \in matches : k <= j])

\* the states JSON.parse hands to LOAD_STATE
SavedStates ==
    { initialState,
      [scenarios |-> <<[id |-> "scenario_1", name |-> "Home"],
                       [id |-> "scenario_2", name |-> "Home"]>>,
       currentScenarioId |-> Some("scenario_1"), currency |-> "EUR",
       decimalPlaces |-> 0, theme |-> "dark"],
      [scenarios |-> <<[id |-> "scenario_2", name |-> "Home"]>>,
       currentScenarioId |-> Some("scenario_1"), currency |-> "USD",
       decimalPlaces |-> 2, theme |-> "dark"] }

\* the calculator at rest while the store or the manager is used
Idle ==
    /\ fn = "none"
    /\ input = NoArgs
    /\ pc = "done"
    /\ args = NoArgs
    /\ monthlyEMI = 0
    /\ balance = 0
    /\ month = 0
    /\ year = 0
    /\ schedule = <<>>
    /\ emiCalls = <<>>
    /\ totalInterestPaid = 0
    /\ totalLumpSum = 0
    /\ totalExtraPayments = 0
    /\ result = "none"
    /\ frames = <<>>
    /\ heap = <<>>

calculator == <<single, concurrent>>
adManager == <<now, lastShowTime, calculationCount, tracked, adLog>>

\* dispatch({ type: "ADD_SCENARIO", payload: scenario })
AddScenario(scenario) ==
    /\ Len(state.scenarios) < MaxScenarios
    /\ state' = mortgageReducer(state, [type |-> "ADD_SCENARIO", payload |-> scenario])
    /\ deleted' = Null
    /\ UNCHANGED <<calculator, adManager>>

UpdateScenario(scenario) ==
    /\ state' = mortgageReducer(state, [type |-> "UPDATE_SCENARIO", payload |-> scenario])
    /\ deleted' = Null
    /\ UNCHANGED <<calculator, adManager>>

DeleteScenario(id) ==
    /\ state' = mortgageReducer(state, [type |-> "DELETE_SCENARIO", payload |-> id])
    /\ deleted' = Some(id)
    /\ UNCHANGED <<calculator, adManager>>

SetCurrentScenario(id) ==
    /\ state' = mortgageReducer(state, [type |-> "SET_CURRENT_SCENARIO", payload |-> id])
    /\ deleted' = Null
    /\ UNCHANGED <<calculator, adManager>>

SetCurrency(currency) ==
    /\ state' = mortgageReducer(state, [type |-> "SET_CURRENCY", payload |-> currency])
    /\ deleted' = Null
    /\ UNCHANGED <<calculator, adManager>>

SetDecimalPlaces(places) ==
    /\ state' = mortgageReducer(state, [type |-> "SET_DECIMAL_PLACES", payload |-> places])
    /\ deleted' = Null
    /\ UNCHANGED <<calculator, adManager>>

SetTheme(theme) ==
    /\ state' = mortgageReducer(state, [type |-> "SET_THEME", payload |-> theme])
    /\ deleted' = Null
    /\ UNCHANGED <<calculator, adManager>>

\* loadState: dispatch({ type: "LOAD_STATE", payload: JSON.parse(savedState) })
LoadState(saved) ==
    /\ state' = mortgageReducer(state, [type |-> "LOAD_STATE", payload |-> saved])
    /\ deleted' = Null
    /\ UNCHANGED <<calculator, adManager>>

StoreInit == Idle /\ AppInit

\* the store used through addScenario, updateScenario and deleteScenario only,
\* with the ids the screens generate
ScenarioNext ==
    \/ \E scenario \in Scenarios(ScenarioIds) : AddScenario(scenario)
    \/ \E scenario \in Scenarios(ScenarioIds) : UpdateScenario(scenario)
    \/ \E id \in ScenarioIds : DeleteScenario(id)

ScenarioSpec == StoreInit /\ [][ScenarioNext]_vars

\* the store used through every action of MortgageAction
StoreNext ==
    \/ \E scenario \in Scenarios(AnyIds) : AddScenario(scenario)
    \/ \E scenario \in Scenarios(AnyIds) : UpdateScenario(scenario)
    \/ \E id \in AnyIds : DeleteScenario(id)
    \/ \E id \in {Null} \cup {Some(i) : i \in AnyIds} : SetCurrentScenario(id)
    \/ \E currency \in {"USD", "EUR"} : SetCurrency(currency)
    \/ \E places \in {0, 2} : SetDecimalPlaces(places)
    \/ \E theme \in {"light", "dark"} : SetTheme(theme)
    \/ \E saved \in SavedStates : LoadState(saved)

StoreSpec == StoreInit /\ [][StoreNext]_vars

\* ----------------------------------------------------- InterstitialAdManager
MaxClock == 210000
MaxTracked == 7

\* the time that passes between two calls, in milliseconds
ClockSteps == {10000, 30000}

\* (now - lastShowTime) / 1000 >= interstitialMinInterval
hasEnoughTimeElapsed ==
    (now - lastShowTime) >= interstitialMinInterval * 1000

shouldShowByFrequency ==
    /\ calculationCount % interstitialFrequency = 0
    /\ calculationCount > 0

shouldShowInterstitial ==
    IF ~adsEnabled THEN FALSE ELSE shouldShowByFrequency /\ hasEnoughTimeElapsed

\* time passes
Tick ==
    /\ \E dt \in ClockSteps :
           /\ now + dt <= MaxClock
           /\ now' = now + dt
    /\ UNCHANGED <<calculator, state, deleted, lastShowTime, calculationCount, tracked, adLog>>

trackCalculation ==
    /\ tracked < MaxTracked
    /\ calculationCount' = calculationCount + 1
    /\ tracked' = tracked + 1
    /\ UNCHANGED <<calculator, state, deleted, now, lastShowTime, adLog>>

\* showInterstitial: false without a change, or the show time is set, the ad
\* is logged and true is returned
showInterstitial ==
    /\ IF shouldShowInterstitial
       THEN /\ lastShowTime' = now
            /\ adLog' = Append(adLog, [time |-> now, previous |-> lastShowTime,
                                       calculationCount |-> calculationCount,
                                       tracked |-> tracked])
       ELSE UNCHANGED <<lastShowTime, adLog>>
    /\ UNCHANGED <<calculator, state, deleted, now, calculationCount, tracked>>

resetCounter ==
    /\ calculationCount' = 0
    /\ UNCHANGED <<calculator, state, deleted, now, lastShowTime, tracked, adLog>>

AdInit == Idle /\ AppInit

AdNext ==
    \/ Tick
    \/ trackCalculation
    \/ showInterstitial
    \/ resetCounter

AdSpec == AdInit /\ [][AdNext]_vars

\* ------------------------------------------------------------ the properties
Advanced == fn = "calculateAdvancedMortgage"
Standard == fn \in StandardFns

\* the balance the running schedule started from
StartBalance == IF Advanced THEN input.loanAmount ELSE args.principal

\* the principal component of a record of either engine
PrincipalOf(rec) == IF Advanced THEN rec.principalPayment ELSE rec.principal
InterestOf(rec) == IF Advanced THEN rec.interestPayment ELSE rec.interest

\* the balance that entered the period of the k-th record
EnteringBalance(k) == IF k = 1 THEN StartBalance ELSE schedule[k - 1].balance

SumOfPrincipal == SumOf(schedule, IF Advanced THEN "principalPayment" ELSE "principal")

\* year * 12 + month of a date
MonthIndex(date) == date.y * 12 + date.m

\* C1: for every configuration of generateAmortizationSchedule, also one whose
\* payment never covers the interest, the schedule never has more than
\* 2 x tenureMonths records (the loop stops at the cap).
C1_ScheduleWithinCap ==
    (Standard /\ pc # "entry") => Len(schedule) <= 2 * args.tenureMonths

\* C2: calculateAdvancedMortgage pushes one record per counted month and stops
\* at month = 2 x tenureMonths at the latest, so its schedule has at most
\* 2 x tenureMonths records, also when the EMI never covers the interest.
C2_AdvancedWithinCap ==
    Advanced =>
        /\ month = Len(schedule)
        /\ Len(schedule) <= 2 * input.tenureMonths
        /\ pc = "done" => Len(result.schedule) <= 2 * input.tenureMonths

\* a schedule cut at the cap: the interest of a period exceeded the EMI and the
\* balance is still open after 2 x tenureMonths records
C2_Witness ==
    /\ Advanced
    /\ pc = "done"
    /\ Len(result.schedule) = 2 * input.tenureMonths
    /\ balance > input.loanAmount
    /\ \E k \in 1 .. Len(schedule) : schedule[k].interestPayment > monthlyEMI

\* C3: for annual rate > 0 and monthlyOverpayment >= 0 the schedule returned by
\* generateAmortizationSchedule has at most tenureMonths records and its last
\* record has a balance below one currency unit.
C3_LengthAtMostTenure ==
    (/\ fn = "generateAmortizationSchedule"
     /\ pc = "done"
     /\ input.annualRate > 0
     /\ input.monthlyOverpayment >= 0)
    => /\ Len(result) <= input.tenureMonths
       /\ result[Len(result)].balance < Scale

\* C4: every record of either engine has a balance >= 0 and a principal
\* component not larger than the balance that entered its period.
C4_BalanceClamped ==
    pc # "entry" =>
        \A k \in 1 .. Len(schedule) :
            /\ schedule[k].balance >= 0
            /\ PrincipalOf(schedule[k]) <= EnteringBalance(k)

\* the last period absorbed the remainder: the uncapped principal payment was
\* larger than the balance, and the record pays the balance exactly
C4_Witness ==
    /\ fn = "generateAmortizationSchedule"
    /\ pc = "done"
    /\ Len(schedule) >= 2
    /\ LET k == Len(schedule)
       IN  /\ schedule[k].principal = EnteringBalance(k)
           /\ monthlyEMI - schedule[k].interest + args.monthlyOverpayment
                  > EnteringBalance(k)
           /\ schedule[k].balance = 0

\* C5: the principal components of the records sum to the starting balance
\* minus the balance of the last record, and to the original principal when
\* the schedule ended by balance exhaustion.
C5_PrincipalSum ==
    (pc # "entry" /\ Len(schedule) > 0) =>
        /\ SumOfPrincipal = StartBalance - schedule[Len(schedule)].balance
        /\ (pc = "done" /\ balance <= 0) => SumOfPrincipal = StartBalance

\* a schedule of several records, one of them carrying a lump sum, that ended
\* by balance exhaustion
C5_Witness ==
    /\ Advanced
    /\ pc = "done"
    /\ balance = 0
    /\ Len(schedule) >= 3
    /\ \E k \in 1 .. Len(schedule) : schedule[k].isLumpSumMonth
    /\ SumOfPrincipal = input.loanAmount

\* the lump sum is enabled and its month is one of the months the schedule covers
LumpSumInHorizon ==
    /\ input.hasLumpSum
    /\ TruthyNumber(input.lumpSumAmount)
    /\ IsDefined(input.lumpSumDate)
    /\ (MonthIndex(input.lumpSumDate[1]) - MonthIndex(input.loanStartDate))
           \in 0 .. (Len(schedule) - 1)

\* C6: with a lump sum enabled whose date lies inside the schedule's horizon,
\* exactly one PaymentDetail has isLumpSumMonth, it is the one in the month of
\* the lump-sum date, and totalLumpSum is the configured amount.
C6_LumpSumOnce ==
    (Advanced /\ pc = "done" /\ LumpSumInHorizon) =>
        /\ Cardinality({k \in 1 .. Len(schedule) : schedule[k].isLumpSumMonth}) = 1
        /\ \A k \in 1 .. Len(schedule) :
               schedule[k].isLumpSumMonth <=>
                   isSameMonth(schedule[k].date, input.lumpSumDate[1])
        /\ result.totalLumpSum = input.lumpSumAmount[1]

\* C7: the payment date of month offset i lies in the calendar month i months
\* after the start date's month, on day min(paymentDay, days of that month).
C7_PaymentDateInTargetMonth ==
    Advanced =>
        \A k \in 1 .. Len(schedule) :
            LET target == MonthIndex(input.loanStartDate) + (k - 1)
            IN  /\ MonthIndex(schedule[k].date) = target
                /\ schedule[k].date.d =
                       Min(input.emiPaymentDate, DaysInMonth(target \div 12, target % 12))

\* a returned call whose schedule is that of generateAmortizationSchedule(input)
OverpaymentCall ==
    /\ fn \in {"generateAmortizationSchedule", "calculateOverpaymentImpact"}
    /\ pc = "done"

\* the number of records of the same loan with monthly overpayment ov
ScheduleLength(ov) ==
    Len(generateAmortizationSchedule(input.principal, input.annualRate,
                                     input.tenureMonths, ov))

\* C8 as stated: a larger overpayment gives a strictly shorter schedule.
C8_StrictlyShorter ==
    OverpaymentCall =>
        \A a \in Overpayments :
            (0 <= a /\ a < input.monthlyOverpayment) => Len(schedule) < ScheduleLength(a)

\* C8 amended: a larger overpayment never gives a longer schedule, so the
\* newTenureMonths of calculateOverpaymentImpact never exceeds the length of
\* the schedule without overpayment.
C8_NeverLonger ==
    OverpaymentCall =>
        /\ \A a \in Overpayments :
               (0 <= a /\ a < input.monthlyOverpayment)
                   => Len(schedule) <= ScheduleLength(a)
        /\ (fn = "calculateOverpaymentImpact" /\ input.monthlyOverpayment > 0)
               => result.newTenureMonths <= ScheduleLength(0)

\* an overpayment that shortens the schedule
C8_Witness ==
    /\ fn = "calculateOverpaymentImpact"
    /\ pc = "done"
    /\ input.monthlyOverpayment > 0
    /\ result.newTenureMonths < ScheduleLength(0)
    /\ result.newTenureMonths >= 2

\* C9 as stated: every overpayment > 0 on a loan with rate > 0 saves interest.
C9_InterestSaved ==
    (/\ fn = "calculateOverpaymentImpact"
     /\ pc = "done"
     /\ input.annualRate > 0
     /\ input.monthlyOverpayment > 0)
    => /\ result.interestSaved > 0
       /\ result.newTotalInterest < result.originalTotalInterest

\* C9 amended: an overpayment of one currency unit or more on a loan with
\* rate > 0 and at least two months saves interest.
C9_InterestSavedFromTwoMonths ==
    (/\ fn = "calculateOverpaymentImpact"
     /\ pc = "done"
     /\ input.annualRate > 0
     /\ input.tenureMonths >= 2
     /\ input.monthlyOverpayment >= Scale)
    => /\ result.interestSaved > 0
       /\ result.newTotalInterest < result.originalTotalInterest

C9_Witness ==
    /\ fn = "calculateOverpaymentImpact"
    /\ pc = "done"
    /\ input.annualRate > 0
    /\ input.tenureMonths >= 2
    /\ input.monthlyOverpayment >= Scale
    /\ result.interestSaved > 0
    /\ Len(result.schedule) >= 2

\* C10: a lump sum of the current balance or more gives newBalance = 0,
\* newTenureMonths = 0, newTotalInterest = 0, an empty schedule and
\* interestSaved = originalTotalInterest = EMI x tenure - balance, and no EMI is
\* computed for a zero balance.
C10_FullPayment ==
    (/\ fn = "calculatePartPaymentImpact"
     /\ pc = "done"
     /\ input.lumpSumAmount >= input.currentBalance)
    => /\ result.newBalance = 0
       /\ result.newTenureMonths = 0
       /\ result.newTotalInterest = 0
       /\ result.schedule = <<>>
       /\ result.interestSaved = result.originalTotalInterest
       /\ result.originalTotalInterest =
              calculateMonthlyEMI(input.currentBalance, input.annualRate,
                                  input.remainingTenureMonths)
                  * input.remainingTenureMonths - input.currentBalance
       /\ emiCalls = <<<<input.currentBalance, input.annualRate,
                         input.remainingTenureMonths>>>>

\* the lump sum equals the balance of a loan that carries interest
C10_Witness ==
    /\ fn = "calculatePartPaymentImpact"
    /\ pc = "done"
    /\ input.lumpSumAmount = input.currentBalance
    /\ result.originalTotalInterest > 0
    /\ result.interestSaved = result.originalTotalInterest

\* a returned call of calculatePartPaymentImpact
PartPaymentDone == fn = "calculatePartPaymentImpact" /\ pc = "done"

\* a PartPaymentResult without its two advisory fields
WithoutLimit(r) == [r EXCEPT !.maxAllowedPayment = 0, !.isWithinLimit = TRUE]

\* C11: maxAllowedPayment is a tenth of originalLoanAmount, isWithinLimit is
\* lumpSumAmount <= maxAllowedPayment, and nothing else in the result depends
\* on originalLoanAmount: a lump sum above the cap is applied in full and every
\* other field equals that of the call with any other originalLoanAmount.
C11_LimitAdvisory ==
    PartPaymentDone =>
        /\ 10 * result.maxAllowedPayment = input.originalLoanAmount
        /\ result.isWithinLimit = (input.lumpSumAmount <= result.maxAllowedPayment)
        /\ result.newBalance = Max(0, input.currentBalance - input.lumpSumAmount)
        /\ \A o \in OriginalLoanAmounts :
               WithoutLimit(result) =
                   WithoutLimit(calculatePartPaymentImpact(
                                    input.currentBalance, input.remainingTenureMonths,
                                    input.annualRate, input.lumpSumAmount, o))

\* a lump sum above the cap that is applied in full and saves interest
C11_Witness ==
    /\ PartPaymentDone
    /\ ~result.isWithinLimit
    /\ input.lumpSumAmount > result.maxAllowedPayment
    /\ result.newBalance = input.currentBalance - input.lumpSumAmount
    /\ result.newBalance > 0
    /\ Len(result.schedule) >= 2
    /\ result.interestSaved > 0

\* C12: for annual rate > 0 and 0 < lumpSumAmount < currentBalance the result
\* has newBalance = currentBalance - lumpSumAmount, principalReduction =
\* lumpSumAmount, newTenureMonths <= originalTenureMonths and interestSaved > 0.
C12_PartialLumpSum ==
    (/\ PartPaymentDone
     /\ input.annualRate > 0
     /\ 0 < input.lumpSumAmount
     /\ input.lumpSumAmount < input.currentBalance)
    => /\ result.newBalance = input.currentBalance - input.lumpSumAmount
       /\ result.principalReduction = input.lumpSumAmount
       /\ result.newTenureMonths <= result.originalTenureMonths
       /\ result.interestSaved > 0

\* C13: the interestRate of every record of calculateAdvancedMortgage is the
\* fixed rate when a fixed-rate period is configured and the payment date is on
\* or before fixedRateEndDate, the variable rate when it is configured and the
\* payment date is after fixedRateEndDate, and the base annualRate when none
\* is configured; the record's interest is the entering balance times that
\* rate / 1200.
C13_RateSelection ==
    Advanced =>
        \A k \in 1 .. Len(schedule) :
            LET rec == schedule[k]
            IN  /\ input.hasFixedRatePeriod =>
                       IF DateValue(rec.date) <= DateValue(input.fixedRateEndDate[1])
                       THEN rec.interestRate = input.fixedRate[1]
                       ELSE rec.interestRate = input.variableRate[1]
                /\ ~input.hasFixedRatePeriod => rec.interestRate = input.annualRate
                /\ rec.interestPayment =
                       MulDiv(EnteringBalance(k), rec.interestRate, RateDen)

\* a schedule that crosses the boundary: a payment on the end date itself at
\* the fixed rate, the next one at the variable rate, neither the base rate
C13_Witness ==
    /\ Advanced
    /\ pc = "done"
    /\ input.hasFixedRatePeriod
    /\ \E k \in 1 .. (Len(schedule) - 1) :
           /\ schedule[k].date = input.fixedRateEndDate[1]
           /\ schedule[k].interestRate = input.fixedRate[1]
           /\ schedule[k + 1].interestRate = input.variableRate[1]
           /\ input.fixedRate[1] # input.variableRate[1]
           /\ input.fixedRate[1] # input.annualRate
           /\ input.variableRate[1] # input.annualRate
           /\ schedule[k].interestPayment > 0
           /\ schedule[k + 1].interestPayment > schedule[k].interestPayment

\* the EMI of the loan at its base rate
BaseEMI ==
    calculateEMI(input.loanAmount, getMonthlyRate(input.annualRate), input.tenureMonths)

\* the extra payment and the lump sum flagged on a record
FlaggedExtras(rec) ==
    (IF rec.isExtraPaymentMonth THEN input.extraPaymentAmount[1] ELSE 0)
    + (IF rec.isLumpSumMonth THEN input.lumpSumAmount[1] ELSE 0)

\* the k-th record was not cut to the remaining balance
NotClamped(k) ==
    BaseEMI - schedule[k].interestPayment + FlaggedExtras(schedule[k])
        <= EnteringBalance(k)

\* C14: the engine never recomputes the EMI: originalMonthlyEMI and
\* newMonthlyEMI are the EMI of (loanAmount, base annualRate, tenureMonths)
\* whatever the fixed and variable rates are, and every record that is not
\* clamped to the balance has totalPayment = that EMI plus the extra payment and
\* the lump sum flagged on it, before and after the rate boundary.
C14_EMIConstant ==
    (Advanced /\ pc # "entry") =>
        /\ monthlyEMI = BaseEMI
        /\ pc = "done" =>
               /\ result.originalMonthlyEMI = BaseEMI
               /\ result.newMonthlyEMI = BaseEMI
        /\ \A k \in 1 .. Len(schedule) :
               NotClamped(k) =>
                   schedule[k].totalPayment = BaseEMI + FlaggedExtras(schedule[k])

\* unclamped payments at the fixed and at the variable rate, one of them with
\* an extra payment, on a loan whose EMI at the fixed rate would be another
C14_Witness ==
    /\ Advanced
    /\ pc = "done"
    /\ input.hasFixedRatePeriod
    /\ BaseEMI # calculateEMI(input.loanAmount, getMonthlyRate(input.fixedRate[1]),
                              input.tenureMonths)
    /\ \E j, k \in 1 .. Len(schedule) :
           /\ j < k
           /\ NotClamped(j) /\ NotClamped(k)
           /\ schedule[j].interestRate = input.fixedRate[1]
           /\ schedule[k].interestRate = input.variableRate[1]
           /\ schedule[j].totalPayment = BaseEMI
           /\ schedule[k].isExtraPaymentMonth
           /\ schedule[k].totalPayment = BaseEMI + input.extraPaymentAmount[1]

\* the payment date lies between the two dates of the window, both included
InWindow(date) ==
    /\ DateValue(input.extraPaymentStartDate[1]) <= DateValue(date)
    /\ DateValue(date) <= DateValue(input.extraPaymentEndDate[1])

\* the records carrying the extra payment
ExtraPaymentRecords == {k \in 1 .. Len(schedule) : schedule[k].isExtraPaymentMonth}

\* totalExtraPayments is the amount times the number of flagged records
ExtraPaymentTotal ==
    /\ totalExtraPayments = input.extraPaymentAmount[1] * Cardinality(ExtraPaymentRecords)
    /\ pc = "done" => result.totalExtraPayments = totalExtraPayments

\* C15 as stated: with extra payments enabled a record is flagged exactly when
\* its payment date is in the window, every flagged record has the amount
\* added to totalPayment and principalPayment, and totalExtraPayments is the
\* amount times the number of flagged records.
C15_ExtraPaymentWindow ==
    (Advanced /\ pc # "entry" /\ input.hasExtraPayments) =>
        /\ \A k \in 1 .. Len(schedule) :
               /\ schedule[k].isExtraPaymentMonth <=> InWindow(schedule[k].date)
               /\ schedule[k].isExtraPaymentMonth =>
                      /\ schedule[k].totalPayment = BaseEMI + FlaggedExtras(schedule[k])
                      /\ schedule[k].principalPayment =
                             BaseEMI - schedule[k].interestPayment
                                 + FlaggedExtras(schedule[k])
        /\ ExtraPaymentTotal

\* C15 amended: with extra payments enabled and an amount other than 0 a
\* record is flagged exactly when its payment date is in the window (with
\* amount 0 no record is flagged); a flagged record that is not clamped to the
\* balance has the amount in totalPayment and principalPayment; and
\* totalExtraPayments is the amount times the number of flagged records, a
\* clamped record counted in full.
C15_ExtraPaymentWindowUnclamped ==
    (Advanced /\ pc # "entry" /\ input.hasExtraPayments) =>
        /\ \A k \in 1 .. Len(schedule) :
               /\ schedule[k].isExtraPaymentMonth <=>
                      (input.extraPaymentAmount[1] # 0 /\ InWindow(schedule[k].date))
               /\ (schedule[k].isExtraPaymentMonth /\ NotClamped(k)) =>
                      /\ schedule[k].totalPayment = BaseEMI + FlaggedExtras(schedule[k])
                      /\ schedule[k].principalPayment =
                             BaseEMI - schedule[k].interestPayment
                                 + FlaggedExtras(schedule[k])
        /\ ExtraPaymentTotal

\* payments on the first and on the last day of the window, both flagged and
\* not clamped, and a payment before the window that is not flagged
C15_Witness ==
    /\ Advanced
    /\ pc = "done"
    /\ input.hasExtraPayments
    /\ \E i, j, k \in 1 .. Len(schedule) :
           /\ DateValue(schedule[i].date) < DateValue(input.extraPaymentStartDate[1])
           /\ ~schedule[i].isExtraPaymentMonth
           /\ schedule[j].date = input.extraPaymentStartDate[1]
           /\ schedule[k].date = input.extraPaymentEndDate[1]
           /\ schedule[j].isExtraPaymentMonth /\ NotClamped(j)
           /\ schedule[k].isExtraPaymentMonth /\ NotClamped(k)
           /\ schedule[k].totalPayment = BaseEMI + input.extraPaymentAmount[1]
    /\ result.totalExtraPayments >= 3 * input.extraPaymentAmount[1]
    /\ input.extraPaymentAmount[1] > 0

\* C16: a disabled block is inert whatever its fields carry and whatever the
\* other blocks are: without hasLumpSum no record has isLumpSumMonth and
\* totalLumpSum = 0; without hasExtraPayments no record has
\* isExtraPaymentMonth and totalExtraPayments = 0; without hasFixedRatePeriod
\* every record's interestRate is the base annualRate.
C16_DisabledBlocksInert ==
    (Advanced /\ pc # "entry") =>
        /\ ~input.hasLumpSum =>
               /\ \A k \in 1 .. Len(schedule) : ~schedule[k].isLumpSumMonth
               /\ totalLumpSum = 0
               /\ pc = "done" => result.totalLumpSum = 0
        /\ ~input.hasExtraPayments =>
               /\ \A k \in 1 .. Len(schedule) : ~schedule[k].isExtraPaymentMonth
               /\ totalExtraPayments = 0
               /\ pc = "done" => result.totalExtraPayments = 0
        /\ ~input.hasFixedRatePeriod =>
               \A k \in 1 .. Len(schedule) : schedule[k].interestRate = input.annualRate

\* a disabled lump sum dated in the month of a payment and a disabled
\* fixed-rate period with other rates, next to an extra payment that applies
C16_Witness ==
    /\ Advanced
    /\ pc = "done"
    /\ ~input.hasLumpSum
    /\ TruthyNumber(input.lumpSumAmount)
    /\ \E k \in 1 .. Len(schedule) :
           /\ isSameMonth(schedule[k].date, input.lumpSumDate[1])
           /\ ~schedule[k].isLumpSumMonth
           /\ schedule[k].isExtraPaymentMonth
           /\ schedule[k].interestRate = input.annualRate
    /\ ~input.hasFixedRatePeriod
    /\ IsDefined(input.fixedRate)
    /\ input.fixedRate[1] # input.annualRate
    /\ input.hasExtraPayments
    /\ result.totalLumpSum = 0
    /\ result.totalExtraPayments > 0

\* the result of call c run alone on the objects as its caller made them
ResultAlone(c) ==
    RunAlone(EntryFrame(frames[c].fn, frames[c].input), InputOf(frames[c], InitialHeap))

PercentageReturned ==
    /\ pc = "done"
    /\ \/ fn = "calculateOverpaymentImpact" /\ input.monthlyOverpayment >= 0
       \/ fn = "calculateAdvancedMortgage"

\* C18: with annualRate = 0 no function divides by zero and every numeric
\* field of a result, interestSavedPercentage included, is a well-defined
\* number.
C18_ZeroRateWellDefined ==
    (PercentageReturned /\ input.annualRate = 0) =>
        result.interestSavedPercentage.isFinite

\* emi is principal / months to the nearest unit, and exactly when months
\* divides the principal
IsQuotient(emi, principal, months) ==
    /\ 2 * emi * months <= 2 * principal + months
    /\ 2 * emi * months >= 2 * principal - months
    /\ principal % months = 0 => emi * months = principal

\* C19: at annual rate 0 the EMI is principal / n, for any principal >= 0 and
\* any term n > 0, in calculateMonthlyEMI (every call made by the standard
\* functions) and in the advanced engine's calculateEMI.
C19_ZeroRateEMI ==
    /\ (Standard /\ pc # "entry") =>
           \A k \in 1 .. Len(emiCalls) :
               emiCalls[k][2] = 0 =>
                   IsQuotient(calculateMonthlyEMI(emiCalls[k][1], 0, emiCalls[k][3]),
                              emiCalls[k][1], emiCalls[k][3])
    /\ (Standard /\ args # NoArgs /\ args.annualRate = 0) =>
           IsQuotient(monthlyEMI, args.principal, args.tenureMonths)
    /\ (Advanced /\ pc # "entry" /\ input.annualRate = 0) =>
           IsQuotient(monthlyEMI, input.loanAmount, input.tenureMonths)
    /\ \A n \in Tenures :
           calculateMonthlyEMI(0, 0, n) = 0 /\ calculateEMI(0, getMonthlyRate(0), n) = 0

\* a loan at rate 0 paid in several equal payments of principal / n
C19_Witness ==
    /\ fn = "generateAmortizationSchedule"
    /\ pc = "done"
    /\ input.annualRate = 0
    /\ input.tenureMonths >= 2
    /\ input.monthlyOverpayment = 0
    /\ monthlyEMI * input.tenureMonths = input.principal
    /\ Len(result) = input.tenureMonths
    /\ \A k \in 1 .. Len(result) : result[k].payment = monthlyEMI

\* p is (a / b) x 100: not a number when b = 0, else the quotient in whole
\* percent
IsPercentage(p, a, b) ==
    IF b = 0 THEN ~p.isFinite
    ELSE /\ p.isFinite
         /\ LET error == p.value * b - 100 * a
                 size == IF b < 0 THEN 0 - b ELSE b
             IN  2 * error <= size /\ 2 * error >= 0 - size

\* C20: calculateOverpaymentImpact reports originalTenureMonths =
\* tenureMonths, newTenureMonths = the length of the schedule with the
\* overpayment, tenureSaved = tenureMonths - newTenureMonths, newTotalInterest =
\* the sum of the schedule's interest components, interestSaved = (EMI x
\* tenureMonths - principal) - newTotalInterest and interestSavedPercentage =
\* interestSaved / originalTotalInterest x 100.
C20_OverpaymentResultFields ==
    (fn = "calculateOverpaymentImpact" /\ pc = "done") =>
        LET emi == calculateMonthlyEMI(input.principal, input.annualRate,
                                       input.tenureMonths)
            baseline == emi * input.tenureMonths - input.principal
        IN  /\ result.schedule =
                   generateAmortizationSchedule(input.principal, input.annualRate,
                                                input.tenureMonths,
                                                input.monthlyOverpayment)
            /\ result.originalTenureMonths = input.tenureMonths
            /\ result.newTenureMonths = Len(result.schedule)
            /\ result.tenureSaved = input.tenureMonths - Len(result.schedule)
            /\ result.newTotalInterest = SumOf(result.schedule, "interest")
            /\ result.originalTotalInterest = baseline
            /\ result.interestSaved = baseline - SumOf(result.schedule, "interest")
            /\ IsPercentage(result.interestSavedPercentage, result.interestSaved,
                            result.originalTotalInterest)

\* an overpayment that saves months and a part of the interest
C20_Witness ==
    /\ fn = "calculateOverpaymentImpact"
    /\ pc = "done"
    /\ input.monthlyOverpayment > 0
    /\ result.tenureSaved > 0
    /\ result.newTenureMonths >= 2
    /\ result.interestSaved > 0
    /\ result.newTotalInterest > 0
    /\ result.interestSavedPercentage.isFinite
    /\ result.interestSavedPercentage.value > 0
    /\ result.interestSavedPercentage.value < 100

\* C21: the result of calculateAdvancedMortgage is consistent with its
\* schedule: newTenureMonths is the number of records, tenureSaved =
\* tenureMonths - newTenureMonths, originalTotalInterest = base-rate EMI x
\* tenureMonths - loanAmount whatever the fixed and variable rates are,
\* newTotalInterest is the sum of interestPayment over the schedule, and
\* interestSaved = originalTotalInterest - newTotalInterest.
C21_AdvancedResultConsistent ==
    (Advanced /\ pc = "done") =>
        /\ result.schedule = schedule
        /\ result.originalTenureMonths = input.tenureMonths
        /\ result.newTenureMonths = Len(result.schedule)
        /\ result.tenureSaved = input.tenureMonths - Len(result.schedule)
        /\ result.originalTotalInterest =
               BaseEMI * input.tenureMonths - input.loanAmount
        /\ result.newTotalInterest = SumOf(result.schedule, "interestPayment")
        /\ result.interestSaved =
               result.originalTotalInterest - result.newTotalInterest

\* a schedule charged at a fixed and then a variable rate, neither the base
\* rate, whose interest differs from the analytic baseline
C21_Witness ==
    /\ Advanced
    /\ pc = "done"
    /\ input.hasFixedRatePeriod
    /\ input.annualRate > 0
    /\ Len(result.schedule) >= 3
    /\ result.schedule[1].interestRate # input.annualRate
    /\ result.schedule[Len(result.schedule)].interestRate # input.annualRate
    /\ result.schedule[1].interestRate
           # result.schedule[Len(result.schedule)].interestRate
    /\ result.newTotalInterest > 0
    /\ result.originalTotalInterest > 0
    /\ result.interestSaved # 0

\* C22 as stated: the k-th record of a schedule of generateAmortizationSchedule
\* has month = k and year = month div 12.
C22_MonthIsIndex ==
    (Standard /\ pc # "entry") =>
        \A k \in 1 .. Len(schedule) :
            /\ schedule[k].month = k
            /\ schedule[k].year = schedule[k].month \div 12

\* C22 amended: month is the month of the loan year, 1 .. 12, and year the
\* number of full years before the record: the k-th record has month =
\* ((k - 1) mod 12) + 1 and year = (k - 1) div 12, so that month + 12 x year = k.
C22_MonthOfYear ==
    (Standard /\ pc # "entry") =>
        \A k \in 1 .. Len(schedule) :
            /\ schedule[k].month = ((k - 1) % 12) + 1
            /\ schedule[k].year = (k - 1) \div 12
            /\ schedule[k].month + 12 * schedule[k].year = k

\* a schedule that runs into its second year: the twelfth record closes
\* year 0 and the thirteenth opens year 1
C22_Witness ==
    /\ fn = "generateAmortizationSchedule"
    /\ pc = "done"
    /\ input.tenureMonths = 12
    /\ Len(result) >= 13
    /\ result[12].month = 12 /\ result[12].year = 0
    /\ result[13].month = 1 /\ result[13].year = 1

\* the three optional blocks of the input are disabled
AllBlocksDisabled ==
    /\ ~input.hasFixedRatePeriod
    /\ ~input.hasLumpSum
    /\ ~input.hasExtraPayments

\* the schedule the standard generator returns for the loan of the advanced input
StandardSchedule ==
    generateAmortizationSchedule(input.loanAmount, input.annualRate, input.tenureMonths, 0)

\* C23: with the three blocks disabled, the schedule of calculateAdvancedMortgage
\* has as many records as generateAmortizationSchedule(loanAmount, annualRate,
\* tenureMonths, 0) and the k-th records agree on interest, principal, total
\* payment and balance.
C23_AdvancedIsStandard ==
    (Advanced /\ pc = "done" /\ AllBlocksDisabled) =>
        /\ Len(result.schedule) = Len(StandardSchedule)
        /\ \A k \in 1 .. Len(result.schedule) :
               /\ k <= Len(StandardSchedule)
               /\ result.schedule[k].interestPayment = StandardSchedule[k].interest
               /\ result.schedule[k].principalPayment = StandardSchedule[k].principal
               /\ result.schedule[k].totalPayment = StandardSchedule[k].payment
               /\ result.schedule[k].balance = StandardSchedule[k].balance

\* two amounts that differ by less than one currency unit
WithinTolerance(a, b) == a - b < Scale /\ b - a < Scale

\* C24: with monthlyOverpayment = 0 the interest summed over the schedule
\* equals EMI x tenureMonths - principal within rounding, the schedule has
\* exactly tenureMonths records, and calculateOverpaymentImpact reports
\* tenureSaved = 0 and interestSaved = 0 within rounding.
C24_BaselineIsSimulation ==
    (/\ fn = "calculateOverpaymentImpact"
     /\ pc = "done"
     /\ input.monthlyOverpayment = 0)
    => /\ WithinTolerance(SumOf(result.schedule, "interest"),
                          result.originalTotalInterest)
       /\ Len(result.schedule) = input.tenureMonths
       /\ result.tenureSaved = 0
       /\ WithinTolerance(result.interestSaved, 0)

\* C27: for 0 <= lumpSumAmount < currentBalance the schedule of
\* calculatePartPaymentImpact is generated with the EMI of the reduced balance
\* over the unchanged remaining tenure, has exactly remainingTenureMonths
\* records, and tenureSaved is 0.
C27_PartialLumpSumKeepsTenure ==
    (/\ PartPaymentDone
     /\ 0 <= input.lumpSumAmount
     /\ input.lumpSumAmount < input.currentBalance)
    => /\ args.principal = input.currentBalance - input.lumpSumAmount
       /\ args.tenureMonths = input.remainingTenureMonths
       /\ monthlyEMI = calculateMonthlyEMI(args.principal, input.annualRate,
                                           input.remainingTenureMonths)
       /\ Len(result.schedule) = input.remainingTenureMonths
       /\ result.newTenureMonths = input.remainingTenureMonths
       /\ result.tenureSaved = 0

\* C26: in every record of generateAmortizationSchedule and of
\* calculateAdvancedMortgage, the clamped last record and the records with an
\* extra payment or a lump sum included, the total payment is the principal
\* component plus the interest component.
C26_PaymentIsPrincipalPlusInterest ==
    pc # "entry" =>
        \A k \in 1 .. Len(schedule) :
            IF Advanced
            THEN schedule[k].totalPayment =
                     schedule[k].principalPayment + schedule[k].interestPayment
            ELSE schedule[k].payment = schedule[k].principal + schedule[k].interest

\* a returned advanced schedule with an extra payment, a lump sum, and a last
\* record clamped to the balance while it carries the extra payment
C26_Witness ==
    /\ Advanced
    /\ pc = "done"
    /\ input.annualRate > 0
    /\ \E k \in 1 .. Len(schedule) : schedule[k].isLumpSumMonth
    /\ \E k \in 1 .. Len(schedule) : schedule[k].isExtraPaymentMonth
    /\ LET last == schedule[Len(schedule)]
       IN  /\ last.balance = 0
           /\ last.isExtraPaymentMonth
           /\ last.totalPayment < monthlyEMI + input.extraPaymentAmount[1]
           /\ last.interestPayment > 0

\* a fixed-rate period is configured, with two rates that can be told apart
FixedRateConfigured ==
    /\ Advanced
    /\ input.hasFixedRatePeriod
    /\ IsDefined(input.fixedRateEndDate)
    /\ IsDefined(input.fixedRate)
    /\ IsDefined(input.variableRate)
    /\ input.fixedRate # input.variableRate

\* C28: with a fixed-rate period configured, the payment dates of a schedule
\* of calculateAdvancedMortgage never go backwards from one record to the
\* next, and after the first record charged the variable rate no later
\* record is charged the fixed rate.
C28_RateSwitchesOnce ==
    (FixedRateConfigured /\ pc # "entry") =>
        /\ \A k \in 1 .. (Len(schedule) - 1) :
               DateValue(schedule[k].date) <= DateValue(schedule[k + 1].date)
        /\ \A j, k \in 1 .. Len(schedule) :
               (j < k /\ schedule[j].interestRate = input.variableRate[1])
                   => schedule[k].interestRate # input.fixedRate[1]

\* a loan started on the 31st and paid on the 31st: a calendar month is
\* skipped, the next one holds two payments, the schedule runs into the next
\* year, and the rate switches from fixed to variable on the way
C28_Witness ==
    /\ FixedRateConfigured
    /\ pc = "done"
    /\ input.emiPaymentDate = 31
    /\ input.loanStartDate.d = 31
    /\ Len(schedule) >= 13
    /\ schedule[1].interestRate = input.fixedRate[1]
    /\ schedule[Len(schedule)].interestRate = input.variableRate[1]
    /\ schedule[1].date.y < schedule[Len(schedule)].date.y
    /\ \E k \in 1 .. (Len(schedule) - 1) : schedule[k].date = schedule[k + 1].date
    /\ \E k \in 1 .. (Len(schedule) - 1) :
           MonthIndex(schedule[k + 1].date) = MonthIndex(schedule[k].date) + 2

\* the ids of the scenarios of a list
IdsOf(scenarios) == {scenarios[k].id : k \in 1 .. Len(scenarios)}

\* C29: after any sequence of ADD_SCENARIO, UPDATE_SCENARIO and
\* DELETE_SCENARIO with non-empty ids, currentScenarioId is null exactly when
\* the scenario list is empty and otherwise is the id of a scenario of the
\* list, and getCurrentScenario returns a scenario whenever one exists.
C29_CurrentScenarioExists ==
    /\ (state.currentScenarioId = Null) <=> (state.scenarios = <<>>)
    /\ state.scenarios # <<>> =>
           /\ state.currentScenarioId \in {Some(id) : id \in IdsOf(state.scenarios)}
           /\ IsDefined(getCurrentScenario(state))
           /\ Some(getCurrentScenario(state)[1].id) = state.currentScenarioId

\* the last scenario added was deleted while it was the current one, and the
\* first of the two that remain took its place
C29_Witness ==
    /\ IsDefined(deleted)
    /\ Len(state.scenarios) = 2
    /\ deleted[1] \notin IdsOf(state.scenarios)
    /\ state.scenarios[1].id # state.scenarios[2].id
    /\ state.currentScenarioId = Some(state.scenarios[1].id)

RECURSIVE Without(_, _)
\* the scenarios of a list whose id is not the given one, in their order
Without(scenarios, id) ==
    IF scenarios = <<>> THEN <<>>
    ELSE IF Head(scenarios).id = id THEN Without(Tail(scenarios), id)
         ELSE <<Head(scenarios)>> \o Without(Tail(scenarios), id)

\* what DELETE_SCENARIO leaves alone, and the list it leaves
DeleteKeeps(id) ==
    /\ id \notin IdsOf(state'.scenarios)
    /\ state'.scenarios = Without(state.scenarios, id)
    /\ state'.currency = state.currency
    /\ state'.decimalPlaces = state.decimalPlaces
    /\ state'.theme = state.theme

\* C30 as stated: DELETE_SCENARIO removes every scenario of the id and keeps
\* the others in order; a deleted current id is replaced by the id of the
\* first remaining scenario, or null when none remains, any other current id
\* is kept; currency, decimalPlaces and theme are kept; deleting an id that is
\* not in the list changes nothing.
C30_DeleteScenario ==
    [][\A id \in AnyIds :
          DeleteScenario(id) =>
              /\ DeleteKeeps(id)
              /\ state'.currentScenarioId =
                     IF state.currentScenarioId = Some(id)
                     THEN (IF state'.scenarios = <<>> THEN Null
                           ELSE Some(state'.scenarios[1].id))
                     ELSE state.currentScenarioId
              /\ id \notin IdsOf(state.scenarios) => state' = state]_vars

\* C30 amended: as stated, but a first remaining scenario whose id is the
\* empty string gives null, and deleting an id that is not in the list
\* changes nothing only when it is not the current id; when it is, the
\* current id is replaced as for any deleted current id.
C30_DeleteScenarioAmended ==
    [][\A id \in AnyIds :
          DeleteScenario(id) =>
              /\ DeleteKeeps(id)
              /\ state'.currentScenarioId =
                     IF state.currentScenarioId = Some(id)
                     THEN (IF state'.scenarios = <<>> \/ state'.scenarios[1].id = ""
                           THEN Null
                           ELSE Some(state'.scenarios[1].id))
                     ELSE state.currentScenarioId
              /\ (id \notin IdsOf(state.scenarios) /\ state.currentScenarioId # Some(id))
                     => state' = state]_vars

\* a delete of the current id that left two scenarios of different names and
\* ids, the first of them current, with preferences other than the initial ones
C30_Witness ==
    /\ IsDefined(deleted)
    /\ deleted[1] \notin IdsOf(state.scenarios)
    /\ Len(state.scenarios) = 2
    /\ state.scenarios[1].id # state.scenarios[2].id
    /\ state.scenarios[1].name # state.scenarios[2].name
    /\ state.currentScenarioId = Some(state.scenarios[1].id)
    /\ state.currency # initialState.currency
    /\ state.theme # initialState.theme

\* C25: an interstitial is shown only when calculationCount is a positive
\* multiple of interstitialFrequency and interstitialMinInterval seconds have
\* passed since the previous one, so two interstitials are never less than
\* that apart, and at most one is shown per block of interstitialFrequency
\* tracked calculations.
C25_InterstitialCapped ==
    /\ \A k \in 1 .. Len(adLog) :
           /\ adLog[k].calculationCount > 0
           /\ adLog[k].calculationCount % interstitialFrequency = 0
           /\ adLog[k].time - adLog[k].previous >= interstitialMinInterval * 1000
    /\ \A j, k \in 1 .. Len(adLog) :
           j < k => adLog[k].time - adLog[j].time >= interstitialMinInterval * 1000
    /\ \A k \in 1 .. Len(adLog) :
           k * interstitialFrequency <= adLog[k].tracked

====
